---- MODULE Spec2Model ----
(***************************************************************************)
(* FlexDS: discovery -> aggregator -> snapshot builder -> snapshot cache   *)
(* -> xDS stream, and the three consul watcher strategies.                 *)
(*                                                                         *)
(* Spec        : the goroutines that call UpdateServices, the snapshot     *)
(*               cache and the ADS stream of one envoy node.               *)
(* SpecWatcher : the immediate / debounce / batch watcher loops against a  *)
(*               registry, with discrete time.                             *)
(* SpecAgg     : UpdateServices calls that run one at a time, each from    *)
(*               the slot write to the pushed snapshot.                    *)
(* SpecFault   : BuildAndPushSnapshot when a marshal call or a SetSnapshot *)
(*               call returns an error.                                    *)
(* SpecMain    : main from the start of the sources to the exit of the     *)
(*               process, with its long-lived tasks.                       *)
(* SpecRoutes  : ParseServiceRoutes on the metadata of a service.          *)
(* SpecMarathon: convertToDiscoveredServices on the apps of a poll.         *)
(* SpecHandler : the consul handler under the immediate watcher: health    *)
(*               queries, leader entry, list handed to UpdateServices.     *)
(***************************************************************************)
EXTENDS Integers, Sequences, FiniteSets, TLC

\* ------------------------------------------------------------------ bounds
\* UpdateServices calls made over the whole run, all goroutines together.
MaxCalls == 2
\* NACKs the envoy node sends over the whole run.
MaxNacks == 1
\* Index changes the registry shows a watcher over the whole run.
MaxChanges == 6
\* Largest index the registry returns.
MaxIndex == 3
\* UpdateServices calls of a run in which the calls run one at a time.
MaxUpdates == 3
\* Builds of a run in which marshalling and the cache may fail.
MaxBuilds == 2
\* Polls of the marathon loop over the whole run.
MaxPolls == 2
\* Keys in the metadata of a service.
MaxMetaKeys == 4
\* Healthy entries the registry returns for one service.
MaxEntries == 2
\* Apps in the answer of a marathon poll.
MaxApps == 2
\* Catalog responses the immediate watcher reads.
MaxQueries == 2
\* Runs of the consul handler.
MaxRuns == 1

\* Characters of the --listener-ports values on the command line, all
\* occurrences of the flag together.
MaxChars == 4

\* ------------------------------------------------- watcher constants
\* Time is counted in ticks of 250 ms.
\* NewDebounceWatcher(cfg, 500*time.Millisecond)
debounceInterval == 2
\* NewBatchWatcher(cfg, 5, 1*time.Second)
maxBatchSize == 5
batchTimeout == 4
\* consul.Config{WaitTimeSec: 2}
WaitTime == 8
\* time.Sleep(1 * time.Second) after a failed query
ErrorSleep == 4

\* main.go: context.WithTimeout(context.Background(), 5*time.Second), in seconds.
shutdownTimeout == 5

\* routes.go: for routeNum := 1; routeNum <= 10; routeNum++
maxRoutes == 10

\* --------------------------------------------------------------- constants
REF == "__REFERENCE_SNAPSHOT__"

\* The one envoy node of the model.
Nodes == {"envoy1"}

\* Goroutines that call UpdateServices: the consul watcher goroutine and the
\* main goroutine (yaml load, then the marathon poll loop).
Threads == {"consul", "main"}

\* Service lists a source may hand to UpdateServices (services by their key
\* in Catalog): the registry's catalog changes between two handler runs, the
\* file is read once.
ServiceLists(loaderId) ==
    IF loaderId = "consul_loader" THEN {<<"api">>, <<"web">>} ELSE {<<"api">>}

\* The services the sources can discover, by a key of the model. A service
\* has a Name, the flags EnableHTTP2 and EnableTLS, Instances (Address, Port)
\* and Routes (PathPrefix); "api2" is
\* another source's service of the name "api". An instance without a host
\* comes from a YAML entry whose host is missing (yaml_loader.go line 44).
Catalog ==
    [api  |-> [Name |-> "api",
               EnableHTTP2 |-> TRUE, EnableTLS |-> FALSE,
               Instances |-> <<[Address |-> "10.0.0.1", Port |-> 8080]>>,
               Routes |-> <<[PathPrefix |-> "/api"]>>],
     api2 |-> [Name |-> "api",
               EnableHTTP2 |-> FALSE, EnableTLS |-> FALSE,
               Instances |-> <<[Address |-> "10.0.0.2", Port |-> 8080]>>,
               Routes |-> <<[PathPrefix |-> "/v2"]>>],
     web  |-> [Name |-> "web",
               EnableHTTP2 |-> FALSE, EnableTLS |-> FALSE,
               Instances |-> <<>>,
               Routes |-> <<[PathPrefix |-> "/web"]>>],
     db   |-> [Name |-> "db",
               EnableHTTP2 |-> FALSE, EnableTLS |-> FALSE,
               Instances |-> <<[Address |-> "", Port |-> 5432]>>,
               Routes |-> <<[PathPrefix |-> "/db"]>>],
     job  |-> [Name |-> "job",
               EnableHTTP2 |-> FALSE, EnableTLS |-> FALSE,
               Instances |-> <<[Address |-> "10.0.0.3", Port |-> 9000]>>,
               Routes |-> <<>>],
     shop |-> [Name |-> "shop",
               EnableHTTP2 |-> FALSE, EnableTLS |-> TRUE,
               Instances |-> <<[Address |-> "", Port |-> 80],
                               [Address |-> "10.0.0.4", Port |-> 80]>>,
               Routes |-> <<[PathPrefix |-> "/shop"], [PathPrefix |-> "/cart"]>>]]

\* Lists a source may hand to UpdateServices when the calls run one at a time.
SlotChoices(loaderId) ==
    CASE loaderId = "yaml_loader"   -> {<<"api">>, <<"api", "db">>, <<>>}
      [] loaderId = "consul_loader" -> {<<"api2">>, <<"web", "shop">>}
      [] OTHER                      -> {<<"job">>, <<"shop">>}

\* The sources of main.go.
Loaders == {"consul_loader", "yaml_loader", "marathon_loader"}

\* ------------------------------------------- BuildAndPushSnapshot, resources
\* Variant: only a service without instances is skipped.
SkippedNoInstances(s) == Len(Catalog[s].Instances) = 0

\* Line 61: a service without instances or without routes is skipped.
Skipped(s) ==
    \/ Len(Catalog[s].Instances) = 0
    \/ Len(Catalog[s].Routes) = 0

\* Lines 73-93: one endpoint for every instance that has an address.
LbEndpoints(s) ==
    SelectSeq(Catalog[s].Instances, LAMBDA inst : inst.Address # "")

\* Lines 95-99: the load assignment of a service, named like its cluster.
ClusterLoadAssignment(s) ==
    [ClusterName |-> Catalog[s].Name, Endpoints |-> LbEndpoints(s)]

\* Lines 119-130: the cluster of a service, with its load assignment.
Cluster(s) ==
    [Name |-> Catalog[s].Name, LoadAssignment |-> ClusterLoadAssignment(s)]

\* Lines 189-238: one route for every route pattern of a service, to the
\* service's cluster.
ServiceRoutes(s) ==
    [i \in DOMAIN Catalog[s].Routes |->
        [Prefix |-> Catalog[s].Routes[i].PathPrefix, Cluster |-> Catalog[s].Name]]

\* The loop of lines 60-239 over the services given: the slices clusters,
\* endpoints and allRoutes, appended to in the order of the services.
Kept(services) == SelectSeq(services, LAMBDA s : ~Skipped(s))

Clusters(services) ==
    [i \in DOMAIN Kept(services) |-> Cluster(Kept(services)[i])]

Endpoints(services) ==
    [i \in DOMAIN Kept(services) |-> ClusterLoadAssignment(Kept(services)[i])]

\* Variant: the routes are built before the test of line 61.
RECURSIVE AllRoutesUnfiltered(_)
AllRoutesUnfiltered(services) ==
    IF services = <<>> THEN <<>>
    ELSE ServiceRoutes(Head(services)) \o AllRoutesUnfiltered(Tail(services))

RECURSIVE AllRoutes(_)
AllRoutes(services) ==
    IF services = <<>> THEN <<>>
    ELSE (IF Skipped(Head(services)) THEN <<>> ELSE ServiceRoutes(Head(services)))
         \o AllRoutes(Tail(services))

\* cachev3.NewSnapshot keeps the resources of a type by name (names[i] is the
\* name of items[i]): of two resources of one name the later of the slice
\* stays.
IndexResourcesByName(items, names) ==
    [n \in {names[i] : i \in DOMAIN items} |->
        LET last == CHOOSE i \in DOMAIN items :
                        /\ names[i] = n
                        /\ \A j \in DOMAIN items : names[j] = n => j <= i
        IN  items[last]]

\* Lines 241-346: the resources of the snapshot built from the services given.
\* Without a cluster the snapshot is empty (lines 253-256); otherwise it has
\* the clusters and load assignments by name, the route configuration
\* "local_route" and one listener for every listener port.
Resources(services) ==
    IF Len(Clusters(services)) = 0
    THEN [clusters |-> <<>>, endpoints |-> <<>>, routes |-> <<>>, listeners |-> 0]
    ELSE [clusters  |-> IndexResourcesByName(Clusters(services),
                            [i \in DOMAIN Clusters(services) |->
                                Clusters(services)[i].Name]),
          endpoints |-> IndexResourcesByName(Endpoints(services),
                            [i \in DOMAIN Endpoints(services) |->
                                Endpoints(services)[i].ClusterName]),
          routes    |-> AllRoutes(services),
          listeners |-> 1]

\* The warnings a build logs: the only slog.Warn of BuildAndPushSnapshot is
\* the one of line 254; UpdateServices logs nothing.
Warnings(services) ==
    IF Len(Clusters(services)) = 0
    THEN {"No services with healthy instances, pushing empty snapshot"}
    ELSE {}

\* A cache key that holds no snapshot.
NoSnapshot == [version |-> 0, services |-> <<>>]

\* A request the envoy node has not sent / the stream is not processing.
NoRequest == [versionInfo |-> 0, responseNonce |-> 0, errorDetail |-> FALSE]

\* No open watch in the cache for the node's stream.
NoWatch == [open |-> FALSE, versionInfo |-> 0]

\* No response sent on the stream yet.
NoResponse == [version |-> 0, nonce |-> 0]

VARIABLES
    discoveredServiceMap,   \* aggregator: loaderId -> service list
    version,                \* process-global snapshot version counter
    snapshots,              \* cache: key -> snapshot
    statusKeys,             \* cache: node IDs with a status entry
    th,                     \* per goroutine: position in UpdateServices and its locals
    calls,                  \* per goroutine: UpdateServices calls started
    stream,                 \* the node's ADS stream on the server: state, position, locals
    reqCh,                  \* requests sent by the node, not yet read by the stream
    respCh,                 \* the watch's responder channel: versions to send
    watch,                  \* the open watch of the stream in the cache
    client,                 \* the envoy node: applied version, unanswered response
    hist,                   \* history: ACKs, NACKs and sends seen by the server
    strategy,               \* the consul watcher strategy NewWatcher was given
    wpc,                    \* the watcher loop: at its select, in the query, stopped
    ctxDone,                \* the watcher's context has been cancelled
    watcher,                \* the locals of Watch: lastIndex, timer, ...
    whist,                  \* history: handler calls and registry responses
    ahist,                  \* history: the last two UpdateServices calls run alone
    fault,                  \* history: the last build under marshal and cache errors
    life,                   \* main and its tasks: positions, signal, shutdown wait
    conv                    \* a conversion of a source: its input and its result

aggVars == <<discoveredServiceMap, version, th, calls>>
cacheVars == <<snapshots, statusKeys, respCh, watch>>
xdsVars == <<stream, reqCh, client>>

watchVars == <<strategy, wpc, ctxDone, watcher, whist>>

\* The variables of the other specifications.
extraVars == <<fault, life, conv>>

vars == <<aggVars, cacheVars, xdsVars, hist, watchVars, ahist, extraVars>>

TheNode == CHOOSE n \in Nodes : TRUE

\* ----------------------------------------------------------------- helpers
RECURSIVE Concat(_, _)
\* The slots of m appended in the order `order` gives to its keys.
Concat(m, order) ==
    IF order = <<>> THEN <<>>
    ELSE m[Head(order)] \o Concat(m, Tail(order))

\* All orderings of the finite set S.
Orderings(S) ==
    {o \in [1..Cardinality(S) -> S] : \A i, j \in 1..Cardinality(S) : i # j => o[i] # o[j]}

\* Variant: the list is appended to the slot the source already has.
WriteSlotAppend(m, loaderId, services) ==
    [l \in DOMAIN m \cup {loaderId} |->
        IF l # loaderId THEN m[l]
        ELSE IF l \in DOMAIN m THEN m[l] \o services ELSE services]

\* UpdateServices line 21: a.discoveredServiceMap[loaderId] = services.
WriteSlot(m, loaderId, services) ==
    [l \in DOMAIN m \cup {loaderId} |-> IF l = loaderId THEN services ELSE m[l]]

\* UpdateServices lines 23-33: the lists the second pass over the map can
\* build, one for every order the map iteration may take.
Merges(m) == {Concat(m, order) : order \in Orderings(DOMAIN m)}

\* No UpdateServices call.
NoCall == [loaderId |-> "", services |-> <<>>, before |-> <<>>, slots |-> <<>>,
           merged |-> <<>>, version |-> 0]

Idle == [pc |-> "idle", merged |-> <<>>, snap |-> NoSnapshot, nodeIDs |-> <<>>]

StreamClosed ==
    [state |-> "closed", pc |-> "select", req |-> NoRequest, osrSnap |-> NoSnapshot,
     nonce |-> 0, lastSent |-> NoResponse]

TotalCalls == calls["consul"] + calls["main"]

\* The loader IDs a goroutine may pass next: main.go runs yaml.LoadConfig once
\* and then the marathon loop, both on the main goroutine.
NextLoaders(t) ==
    IF t = "consul" THEN {"consul_loader"}
    ELSE IF calls[t] = 0 THEN {"yaml_loader", "marathon_loader"}
    ELSE {"marathon_loader"}

\* The locals of Watch before its loop: the timer is created and stopped
\* (timer -1: not running, 0: expired and unread, n > 0: n ticks to run).
WatcherStart ==
    [lastIndex |-> 0, pendingUpdate |-> FALSE, latestServices |-> {},
     batchCount |-> 0, services |-> {}, timer |-> -1]

NoHandlerCall == [calls |-> 0, lastArg |-> {}, err |-> FALSE]

WatcherHistStart ==
    [handler |-> NoHandlerCall, changes |-> 0, lastChange |-> 0,
     resp |-> [kind |-> "none", index |-> 0],
     sinceLast |-> 0, sinceFirst |-> 0,
     withinD |-> TRUE, gapLtT |-> TRUE, inWindow |-> TRUE]

InitWatcherVars ==
    /\ wpc = "select"
    /\ ctxDone = FALSE
    /\ watcher = WatcherStart
    /\ whist = WatcherHistStart

InitServer ==
    /\ discoveredServiceMap = <<>>
    /\ version = 1
    /\ snapshots = [k \in {REF} \cup Nodes |-> NoSnapshot]
    /\ statusKeys = {}
    /\ th = [t \in Threads |-> Idle]
    /\ calls = [t \in Threads |-> 0]
    /\ stream = StreamClosed
    /\ reqCh = <<>>
    /\ respCh = <<>>
    /\ watch = NoWatch
    /\ client = [version |-> 0, pending |-> <<>>, nacks |-> 0]
    /\ hist = [lastAcked |-> 0, ackedNoNewer |-> {}, nacked |-> {}, touched |-> FALSE,
               refused |-> FALSE]

\* No build under errors has run.
NoBuild == [services |-> <<>>, marshalErr |-> [kind |-> "none", at |-> 0],
            setErr |-> {}, keys |-> {}, before |-> <<>>, outcome |-> "none",
            version |-> 0, resources |-> <<>>]

\* main with every source enabled, before yaml.LoadConfig: the gRPC, admin
\* and consul goroutines have been started.
LifeStart ==
    [enabled |-> {"consul", "yaml", "marathon"}, main |-> "yaml", exit |-> "none",
     signalled |-> FALSE, cancelled |-> FALSE,
     grpc |-> "serving", streamOpen |-> FALSE, consul |-> "running",
     admin |-> "serving", polls |-> 0, lastPoll |-> "none", updates |-> 0,
     waited |-> 0]

\* No conversion has run.
NoConv == [fn |-> "none", in |-> <<>>, out |-> <<>>]

InitExtra ==
    /\ fault = [builds |-> 0, last |-> NoBuild]
    /\ life = LifeStart
    /\ conv = NoConv

\* main.go: watcherStrategy defaults to "immediate".
Init ==
    /\ InitServer
    /\ strategy = "immediate"
    /\ InitWatcherVars
    /\ ahist = [updates |-> 0, last |-> NoCall, prev |-> NoCall]
    /\ InitExtra

\* The process has not been ended by the Go runtime.
Alive == \A t \in Threads : th[t].pc # "fatal"

\* ------------------------------------------------------------ snapshot cache
\* SnapshotCache.SetSnapshot(key, snap): store the snapshot and answer the open
\* watch of that node when its version differs from the watch's versionInfo.
SetSnapshot(key, snap) ==
    /\ snapshots' = [snapshots EXCEPT ![key] = snap]
    /\ IF key \in statusKeys /\ watch.open /\ watch.versionInfo # snap.version
       THEN /\ respCh' = <<snap.version>>
            /\ watch' = NoWatch
       ELSE UNCHANGED <<respCh, watch>>
    /\ hist' = IF key \in Nodes
               THEN [hist EXCEPT !.ackedNoNewer = {v \in @ : v >= snap.version},
                                 !.touched = (stream.pc = "watch")]
               ELSE hist
    /\ UNCHANGED statusKeys

\* ---------------------------------------------- aggregator, snapshot manager
\* UpdateServices line 21: the slot write that opens a call.
SlotWrite(t) ==
    /\ th[t].pc = "idle"
    /\ TotalCalls < MaxCalls
    /\ \E id \in NextLoaders(t) : \E X \in ServiceLists(id) :
        /\ discoveredServiceMap' = WriteSlot(discoveredServiceMap, id, X)
        /\ th' = [th EXCEPT ![t] = [Idle EXCEPT !.pc = "merge"]]
    /\ calls' = [calls EXCEPT ![t] = @ + 1]
    /\ UNCHANGED <<version, cacheVars, xdsVars, hist>>
    /\ UNCHANGED <<watchVars, ahist, extraVars>>

\* The Go map is written by one goroutine (line 21) while another is between
\* its own write and the end of its passes over the map (lines 24-33): the
\* runtime may detect it and end the process ("concurrent map iteration and
\* map write"); when it does not, SlotWrite goes through.
MapRaceFatal(t) ==
    /\ th[t].pc = "idle"
    /\ TotalCalls < MaxCalls
    /\ \E u \in Threads \ {t} : th[u].pc = "merge"
    /\ th' = [u \in Threads |-> [Idle EXCEPT !.pc = "fatal"]]
    /\ stream' = StreamClosed
    /\ reqCh' = <<>>
    /\ respCh' = <<>>
    /\ watch' = NoWatch
    /\ client' = [client EXCEPT !.pending = <<>>]
    /\ UNCHANGED <<discoveredServiceMap, version, calls, snapshots, statusKeys, hist>>
    /\ UNCHANGED <<watchVars, ahist, extraVars>>

\* UpdateServices lines 23-33: two passes over the map; the first only sizes
\* the slice, the second appends every slot in the order the map iteration
\* happens to take.
MergeSlots(t) ==
    /\ th[t].pc = "merge"
    /\ \E merged \in Merges(discoveredServiceMap) :
        th' = [th EXCEPT ![t].pc = "build", ![t].merged = merged]
    /\ UNCHANGED <<discoveredServiceMap, version, calls, cacheVars, xdsVars, hist>>
    /\ UNCHANGED <<watchVars, ahist, extraVars>>

\* Variant: the empty path numbers its snapshot without advancing the counter.
BuildSnapshotEmptyKeepsCounter(t) ==
    /\ th[t].pc = "build"
    /\ version' = IF Len(Clusters(th[t].merged)) = 0 THEN version ELSE version + 1
    /\ th' = [th EXCEPT ![t].pc = "setref",
                        ![t].merged = <<>>,
                        ![t].snap = [version |-> version + 1, services |-> th[t].merged]]
    /\ UNCHANGED <<discoveredServiceMap, calls, cacheVars, xdsVars, hist>>
    /\ UNCHANGED <<watchVars, ahist, extraVars>>

\* Variant: a build without clusters returns without a push.
BuildSnapshotSkipEmpty(t) ==
    /\ th[t].pc = "build"
    /\ version' = IF Len(Clusters(th[t].merged)) = 0 THEN version ELSE version + 1
    /\ th' = [th EXCEPT ![t] =
                IF Len(Clusters(th[t].merged)) = 0 THEN Idle
                ELSE [@ EXCEPT !.pc = "setref", !.merged = <<>>,
                               !.snap = [version |-> version + 1,
                                         services |-> th[t].merged]]]
    /\ UNCHANGED <<discoveredServiceMap, calls, cacheVars, xdsVars, hist>>
    /\ UNCHANGED <<watchVars, ahist, extraVars>>

\* BuildAndPushSnapshot up to the snapshot: the resources are a function of
\* the services given (Resources); the version is taken with
\* atomic.AddUint64, on the empty path (line 255) as on the other (line 335).
BuildSnapshot(t) ==
    /\ th[t].pc = "build"
    /\ version' = version + 1
    /\ th' = [th EXCEPT ![t].pc = "setref",
                        ![t].merged = <<>>,
                        ![t].snap = [version |-> version + 1, services |-> th[t].merged]]
    /\ UNCHANGED <<discoveredServiceMap, calls, cacheVars, xdsVars, hist>>
    /\ UNCHANGED <<watchVars, ahist, extraVars>>

\* BuildAndPushSnapshot: SetSnapshot under the reference key.
SetReference(t) ==
    /\ th[t].pc = "setref"
    /\ SetSnapshot(REF, th[t].snap)
    /\ th' = [th EXCEPT ![t].pc = "keys"]
    /\ UNCHANGED <<discoveredServiceMap, version, calls, xdsVars>>
    /\ UNCHANGED <<watchVars, ahist, extraVars>>

\* Variant: the build returns after the reference key.
GetStatusKeysReferenceOnly(t) ==
    /\ th[t].pc = "keys"
    /\ th' = [th EXCEPT ![t] = Idle]
    /\ UNCHANGED <<discoveredServiceMap, version, calls, cacheVars, xdsVars, hist>>
    /\ UNCHANGED <<watchVars, ahist, extraVars>>

\* BuildAndPushSnapshot: GetStatusKeys, then return when no node is known.
GetStatusKeys(t) ==
    /\ th[t].pc = "keys"
    /\ \E order \in Orderings(statusKeys) :
        th' = [th EXCEPT ![t] = IF order = <<>> THEN Idle
                                ELSE [@ EXCEPT !.pc = "push", !.nodeIDs = order]]
    /\ UNCHANGED <<discoveredServiceMap, version, calls, cacheVars, xdsVars, hist>>
    /\ UNCHANGED <<watchVars, ahist, extraVars>>

\* BuildAndPushSnapshot: one turn of the loop over the node IDs; the call
\* returns after the last one.
PushNode(t) ==
    /\ th[t].pc = "push"
    /\ SetSnapshot(Head(th[t].nodeIDs), th[t].snap)
    /\ th' = [th EXCEPT ![t] = IF Tail(th[t].nodeIDs) = <<>> THEN Idle
                               ELSE [@ EXCEPT !.nodeIDs = Tail(@)]]
    /\ UNCHANGED <<discoveredServiceMap, version, calls, xdsVars>>
    /\ UNCHANGED <<watchVars, ahist, extraVars>>

\* -------------------------------------------------------- the envoy node
\* The node opens its ADS stream and sends the first request of the type:
\* the version it has applied, no nonce.
ClientOpen ==
    /\ Alive
    /\ stream.state = "closed"
    /\ stream' = [StreamClosed EXCEPT !.state = "open"]
    /\ reqCh' = <<[versionInfo |-> client.version, responseNonce |-> 0, errorDetail |-> FALSE]>>
    /\ client' = [client EXCEPT !.pending = <<>>]
    /\ hist' = [hist EXCEPT !.refused = FALSE]
    /\ UNCHANGED <<aggVars, cacheVars>>
    /\ UNCHANGED <<watchVars, ahist, extraVars>>

\* ACK: the node applies the response and echoes its version and nonce.
ClientAck ==
    /\ stream.state = "open"
    /\ client.pending # <<>>
    /\ LET r == Head(client.pending) IN
        /\ reqCh' = <<[versionInfo |-> r.version, responseNonce |-> r.nonce,
                       errorDetail |-> FALSE]>>
        /\ client' = [client EXCEPT !.version = r.version, !.pending = <<>>]
    /\ UNCHANGED <<aggVars, cacheVars, stream, hist>>
    /\ UNCHANGED <<watchVars, ahist, extraVars>>

\* NACK: the node rejects the response; it echoes the nonce with the version
\* it still has applied and an errorDetail.
ClientNack ==
    /\ stream.state = "open"
    /\ client.pending # <<>>
    /\ client.nacks < MaxNacks
    /\ LET r == Head(client.pending) IN
        /\ reqCh' = <<[versionInfo |-> client.version, responseNonce |-> r.nonce,
                       errorDetail |-> TRUE]>>
        /\ client' = [client EXCEPT !.pending = <<>>, !.nacks = @ + 1]
    /\ UNCHANGED <<aggVars, cacheVars, stream, hist>>
    /\ UNCHANGED <<watchVars, ahist, extraVars>>

\* ------------------------------------------------------ the stream server
\* The request's nonce answers the last response sent on this stream.
NonceMatches(req) ==
    stream.lastSent.nonce # 0 /\ req.responseNonce = stream.lastSent.nonce

\* Variant: the error of GetSnapshot is not looked at.
GetSnapshotErrorIgnored(key) == FALSE

\* cache.GetSnapshot(key) returns an error when no snapshot is stored under
\* the key; OnStreamRequest lines 93-97 test it (err != nil).
GetSnapshotError(key) == snapshots[key] = NoSnapshot

\* OnStreamRequest lines 91-103: the stream reads a request and the callback
\* fetches the reference snapshot; without one it returns the error, which
\* ends the stream. hist.refused records that the node's last stream was
\* ended so.
OnStreamRequestGet ==
    /\ stream.state = "open"
    /\ stream.pc = "select"
    /\ reqCh # <<>>
    /\ LET req == Head(reqCh) IN
        IF GetSnapshotError(REF)
        THEN /\ stream' = StreamClosed
             /\ reqCh' = <<>>
             /\ respCh' = <<>>
             /\ watch' = NoWatch
             /\ client' = [client EXCEPT !.pending = <<>>]
             /\ hist' = [hist EXCEPT !.refused = TRUE]
             /\ UNCHANGED <<snapshots, statusKeys>>
        ELSE /\ stream' = [stream EXCEPT !.pc = "osrSet", !.req = req,
                                         !.osrSnap = snapshots[REF]]
             /\ reqCh' = <<>>
             /\ hist' = [hist EXCEPT
                    !.lastAcked =
                        IF NonceMatches(req) /\ ~req.errorDetail
                           /\ req.versionInfo = stream.lastSent.version
                        THEN req.versionInfo ELSE @,
                    !.ackedNoNewer =
                        IF NonceMatches(req) /\ ~req.errorDetail
                           /\ req.versionInfo = stream.lastSent.version
                        THEN @ \cup {req.versionInfo} ELSE @,
                    !.nacked =
                        IF NonceMatches(req) /\ req.errorDetail
                        THEN @ \cup {stream.lastSent.version} ELSE @,
                    !.touched = FALSE]
             /\ UNCHANGED <<cacheVars, client>>
    /\ UNCHANGED aggVars
    /\ UNCHANGED <<watchVars, ahist, extraVars>>

\* Variant: the reference snapshot is installed for a node only when the
\* node has no snapshot yet.
OnStreamRequestSetOnce ==
    /\ stream.pc = "osrSet"
    /\ IF snapshots[TheNode] = NoSnapshot
       THEN SetSnapshot(TheNode, stream.osrSnap)
       ELSE UNCHANGED <<cacheVars, hist>>
    /\ stream' = [stream EXCEPT !.pc = "watch"]
    /\ UNCHANGED <<aggVars, reqCh, client>>
    /\ UNCHANGED <<watchVars, ahist, extraVars>>

\* OnStreamRequest lines 104-109: the reference snapshot that was read is
\* installed under the node's key.
OnStreamRequestSet ==
    /\ stream.pc = "osrSet"
    /\ SetSnapshot(TheNode, stream.osrSnap)
    /\ stream' = [stream EXCEPT !.pc = "watch"]
    /\ UNCHANGED <<aggVars, reqCh, client>>
    /\ UNCHANGED <<watchVars, ahist, extraVars>>

\* After the callback the stream replaces the watch of the type:
\* SnapshotCache.CreateWatch answers at once when the node's snapshot has
\* another version than the request, and leaves the watch open otherwise.
CreateWatch ==
    /\ stream.pc = "watch"
    /\ statusKeys' = statusKeys \cup {TheNode}
    /\ IF stream.lastSent.nonce = 0 \/ NonceMatches(stream.req)
       THEN IF snapshots[TheNode] = NoSnapshot
               \/ stream.req.versionInfo = snapshots[TheNode].version
            THEN /\ watch' = [open |-> TRUE, versionInfo |-> stream.req.versionInfo]
                 /\ respCh' = <<>>
            ELSE /\ watch' = NoWatch
                 /\ respCh' = <<snapshots[TheNode].version>>
       ELSE UNCHANGED <<watch, respCh>>
    /\ stream' = [stream EXCEPT !.pc = "select", !.req = NoRequest, !.osrSnap = NoSnapshot]
    /\ hist' = [hist EXCEPT !.touched = FALSE]
    /\ UNCHANGED <<aggVars, snapshots, reqCh, client>>
    /\ UNCHANGED <<watchVars, ahist, extraVars>>

\* The stream takes the response off the responder channel and sends it with
\* the next nonce of the stream.
StreamSend ==
    /\ stream.state = "open"
    /\ stream.pc = "select"
    /\ respCh # <<>>
    /\ LET resp == [version |-> Head(respCh), nonce |-> stream.nonce + 1] IN
        /\ stream' = [stream EXCEPT !.nonce = @ + 1, !.lastSent = resp]
        /\ client' = [client EXCEPT !.pending = <<resp>>]
    /\ respCh' = <<>>
    /\ UNCHANGED <<aggVars, snapshots, statusKeys, watch, reqCh, hist>>
    /\ UNCHANGED <<watchVars, ahist, extraVars>>

Next ==
    \/ \E t \in Threads : SlotWrite(t)
    \/ \E t \in Threads : MapRaceFatal(t)
    \/ \E t \in Threads : MergeSlots(t)
    \/ \E t \in Threads : BuildSnapshot(t)
    \/ \E t \in Threads : SetReference(t)
    \/ \E t \in Threads : GetStatusKeys(t)
    \/ \E t \in Threads : PushNode(t)
    \/ ClientOpen
    \/ ClientAck
    \/ ClientNack
    \/ OnStreamRequestGet
    \/ OnStreamRequestSet
    \/ CreateWatch
    \/ StreamSend

Spec == Init /\ [][Next]_vars

\* ------------------------------------------------------ the consul watchers
serverVars == <<aggVars, cacheVars, xdsVars, hist>>

\* NewWatcher: "debounce", "batch", and "immediate" for anything else.
Strategies == {"immediate", "debounce", "batch"}

\* The indexes the registry returns; the catalog at index i lists the
\* services 1..i, so that two indexes never show the same list.
Indexes == 1..MaxIndex

\* The names in the registry's catalog: the registry lists itself as the
\* service "consul", the others are named by their number.
ServiceName(j) == IF j = 1 THEN "consul" ELSE ToString(j)

\* The response of client.Catalog().Services at index i: a map keyed by
\* service name, here its set of keys.
CatalogAt(i) == {ServiceName(j) : j \in 1..i}

\* for service := range serviceMapping { svcList = append(svcList, service) }:
\* the list of every key of the response. The order of the list is that of a
\* map iteration and is not kept: the list is modelled as the set of its names.
ServicesAt(i) == CatalogAt(i)

Cap(x, c) == IF x > c THEN c ELSE x

\* The timer after dt ticks: a running timer expires when its time is up and
\* its value then waits in the channel; Stop and Reset discard that value.
Advance(timer, dt) ==
    IF timer > 0 THEN (IF timer > dt THEN timer - dt ELSE 0) ELSE timer

\* Variant: a lower index is ignored.
NextLastIndexMonotone(lastIndex, index) ==
    IF index > lastIndex THEN index ELSE lastIndex

\* lastIndex = meta.LastIndex, reached only when the two differ.
NextLastIndex(lastIndex, index) == index

\* w.cfg.Handler(services): the call is recorded, its error only logged.
CallHandler(h, services, herr) ==
    [calls |-> h.calls + 1, lastArg |-> services, err |-> h.err \/ herr]

\* History: dt ticks pass between two observations of the registry.
Elapse(h, dt) ==
    IF strategy = "immediate" \/ h.changes = 0 THEN h
    ELSE IF strategy = "debounce"
    THEN [h EXCEPT !.sinceLast = Cap(@ + dt, debounceInterval)]
    ELSE [h EXCEPT !.sinceLast = Cap(@ + dt, batchTimeout),
                   !.sinceFirst = Cap(@ + dt, batchTimeout)]

\* History: a response with index i, different from lastIndex, is observed.
Observed(h, i) ==
    [h EXCEPT !.changes = @ + 1,
              !.lastChange = i,
              !.resp = [kind |-> "ok", index |-> i],
              !.withinD = @ /\ (strategy = "debounce"
                                  => h.changes = 0 \/ h.sinceLast < debounceInterval),
              !.gapLtT = @ /\ (strategy = "batch"
                                  => h.changes = 0 \/ h.sinceLast < batchTimeout),
              !.inWindow = @ /\ (strategy = "batch"
                                  => h.changes = 0 \/ h.sinceFirst < batchTimeout),
              !.sinceLast = 0]

Unchanged(h, i) == [h EXCEPT !.resp = [kind |-> "ok", index |-> i]]
Failed(h) == [h EXCEPT !.resp = [kind |-> "error", index |-> 0]]
Cancelled(h) == [h EXCEPT !.resp = [kind |-> "cancelled", index |-> 0]]

\* Variant: a failed query makes the watcher start again from index 0.
QueryErrorResetIndex(w, elapsed) ==
    [w EXCEPT !.lastIndex = 0, !.timer = Advance(@, elapsed)]

\* Variant: a failed query stops the timer.
QueryErrorStopsTimer(w, elapsed) == [w EXCEPT !.timer = -1]

\* The query returned an error and the context is not cancelled: the error is
\* logged, time.Sleep runs and the loop continues; no local is assigned and
\* the timer is neither stopped nor reset, it runs on while the time passes.
QueryError(w, elapsed) == [w EXCEPT !.timer = Advance(@, elapsed)]

\* Variant: Watch returns without stopping its timer.
StopTimerMissing(w) == w

\* debounceTimer.Stop() / batchTimer.Stop() before return nil.
StopTimer(w) == [w EXCEPT !.timer = -1]

\* main.go: cancel() when the process shuts down.
Cancel ==
    /\ ~ctxDone
    /\ wpc # "stopped"
    /\ ctxDone' = TRUE
    /\ UNCHANGED <<serverVars, ahist, extraVars, strategy, wpc, watcher, whist>>

\* ---- ImmediateWatcher.Watch
\* The select at the top of the loop: return when cancelled, else query.
ImmediateSelect ==
    /\ strategy = "immediate"
    /\ wpc = "select"
    /\ wpc' = IF ctxDone THEN "stopped" ELSE "query"
    /\ UNCHANGED <<serverVars, ahist, extraVars, strategy, ctxDone, watcher, whist>>

\* Variant: a handler error ends Watch.
ImmediateStopOnError(herr) == IF herr THEN "stopped" ELSE "select"

\* A handler error is logged and the loop goes on.
ImmediateAfterHandler(herr) == "select"

\* The blocking query returns and the rest of the iteration runs.
ImmediateResponse ==
    /\ strategy = "immediate"
    /\ wpc = "query"
    /\ IF ctxDone
       THEN /\ wpc' = "stopped"
            /\ whist' = Cancelled(whist)
            /\ UNCHANGED watcher
       ELSE \/ /\ wpc' = "select"
               /\ whist' = Failed(whist)
               /\ watcher' = QueryError(watcher, ErrorSleep)
            \/ \E i \in Indexes, herr \in BOOLEAN :
                 /\ i # watcher.lastIndex => whist.changes < MaxChanges
                 /\ IF i = watcher.lastIndex
                    THEN /\ wpc' = "select"
                         /\ whist' = Unchanged(whist, i)
                         /\ UNCHANGED watcher
                    ELSE /\ watcher' = [watcher EXCEPT
                                  !.lastIndex = NextLastIndex(@, i)]
                         /\ whist' = [Observed(whist, i) EXCEPT
                                  !.handler = CallHandler(@, ServicesAt(i), herr)]
                         /\ wpc' = ImmediateAfterHandler(herr)
    /\ UNCHANGED <<serverVars, ahist, extraVars, strategy, ctxDone>>

\* ---- DebounceWatcher.Watch
\* The select of the loop: return when cancelled; when the timer has expired
\* call the handler with latestServices; else (default) issue the query.
DebounceSelect ==
    /\ strategy = "debounce"
    /\ wpc = "select"
    /\ \/ /\ ctxDone
          /\ wpc' = "stopped"
          /\ watcher' = StopTimer(watcher)
          /\ UNCHANGED whist
       \/ /\ watcher.timer = 0
          /\ \E herr \in BOOLEAN :
               whist' = [whist EXCEPT
                   !.handler = CallHandler(@, watcher.latestServices, herr)]
          /\ watcher' = [watcher EXCEPT !.pendingUpdate = FALSE, !.timer = -1]
          /\ wpc' = "select"
       \/ /\ ~ctxDone
          /\ watcher.timer # 0
          /\ wpc' = "query"
          /\ UNCHANGED <<watcher, whist>>
    /\ UNCHANGED <<serverVars, ahist, extraVars, strategy, ctxDone>>

\* Variant: the timer is armed by the first change only.
DebounceResetOnce(pendingUpdate, timer) ==
    IF pendingUpdate THEN timer ELSE debounceInterval

\* debounceTimer.Reset(w.debounceInterval), in both branches of !pendingUpdate.
DebounceReset(pendingUpdate, timer) == debounceInterval

\* The blocking query returns after dt ticks and the default branch finishes.
DebounceResponse ==
    /\ strategy = "debounce"
    /\ wpc = "query"
    /\ IF ctxDone
       THEN /\ wpc' = "stopped"
            /\ watcher' = StopTimer(watcher)
            /\ whist' = Cancelled(whist)
       ELSE /\ wpc' = "select"
            /\ \E dt \in 0..WaitTime :
                 \/ /\ watcher' = QueryError(watcher, dt + ErrorSleep)
                    /\ whist' = Failed(Elapse(whist, dt + ErrorSleep))
                 \/ \E i \in Indexes :
                      /\ i # watcher.lastIndex => whist.changes < MaxChanges
                      /\ IF i = watcher.lastIndex
                         THEN /\ watcher' = [watcher EXCEPT !.timer = Advance(@, dt)]
                              /\ whist' = Unchanged(Elapse(whist, dt), i)
                         ELSE /\ watcher' = [watcher EXCEPT
                                     !.lastIndex = NextLastIndex(@, i),
                                     !.latestServices = ServicesAt(i),
                                     !.pendingUpdate = TRUE,
                                     !.timer = DebounceReset(watcher.pendingUpdate,
                                                             Advance(@, dt))]
                              /\ whist' = Observed(Elapse(whist, dt), i)
    /\ UNCHANGED <<serverVars, ahist, extraVars, strategy, ctxDone>>

\* ---- BatchWatcher.Watch
\* The select of the loop: return when cancelled; when the timer has expired
\* apply a non-empty batch; else (default) issue the query.
BatchSelect ==
    /\ strategy = "batch"
    /\ wpc = "select"
    /\ \/ /\ ctxDone
          /\ wpc' = "stopped"
          /\ watcher' = StopTimer(watcher)
          /\ UNCHANGED whist
       \/ /\ watcher.timer = 0
          /\ IF watcher.batchCount > 0
             THEN \E herr \in BOOLEAN :
                    whist' = [whist EXCEPT
                        !.handler = CallHandler(@, watcher.services, herr)]
             ELSE UNCHANGED whist
          /\ watcher' = [watcher EXCEPT !.batchCount = 0, !.timer = -1]
          /\ wpc' = "select"
       \/ /\ ~ctxDone
          /\ watcher.timer # 0
          /\ wpc' = "query"
          /\ UNCHANGED <<watcher, whist>>
    /\ UNCHANGED <<serverVars, ahist, extraVars, strategy, ctxDone>>

\* Variant: the batch is applied one change late.
BatchFullOver(batchCount) == batchCount > maxBatchSize

\* if batchCount >= w.maxBatchSize
BatchFull(batchCount) == batchCount >= maxBatchSize

\* Variant: every change of a window restarts the timer.
BatchArmAlways(batchCount, timer) == batchTimeout

\* if batchCount == 1 { batchTimer.Reset(w.batchTimeout) }: the first change
\* of a window arms the timer, a later one leaves it running.
BatchArm(batchCount, timer) == IF batchCount = 1 THEN batchTimeout ELSE timer

\* The blocking query returns after dt ticks and the default branch finishes.
BatchResponse ==
    /\ strategy = "batch"
    /\ wpc = "query"
    /\ IF ctxDone
       THEN /\ wpc' = "stopped"
            /\ watcher' = StopTimer(watcher)
            /\ whist' = Cancelled(whist)
       ELSE /\ wpc' = "select"
            /\ \E dt \in 0..WaitTime :
                 \/ /\ watcher' = QueryError(watcher, dt + ErrorSleep)
                    /\ whist' = Failed(Elapse(whist, dt + ErrorSleep))
                 \/ \E i \in Indexes, herr \in BOOLEAN :
                      /\ i # watcher.lastIndex => whist.changes < MaxChanges
                      /\ IF i = watcher.lastIndex
                         THEN /\ watcher' = [watcher EXCEPT !.timer = Advance(@, dt)]
                              /\ whist' = Unchanged(Elapse(whist, dt), i)
                         ELSE IF BatchFull(watcher.batchCount + 1)
                         THEN /\ watcher' = [watcher EXCEPT
                                     !.lastIndex = NextLastIndex(@, i),
                                     !.services = ServicesAt(i),
                                     !.batchCount = 0,
                                     !.timer = -1]
                              /\ whist' = [Observed(Elapse(whist, dt), i) EXCEPT
                                     !.handler = CallHandler(@, ServicesAt(i), herr)]
                         ELSE /\ watcher' = [watcher EXCEPT
                                     !.lastIndex = NextLastIndex(@, i),
                                     !.services = ServicesAt(i),
                                     !.batchCount = @ + 1,
                                     !.timer = BatchArm(watcher.batchCount + 1,
                                                        Advance(@, dt))]
                              /\ whist' = Observed(Elapse(whist, dt), i)
    /\ UNCHANGED <<serverVars, ahist, extraVars, strategy, ctxDone>>

NextWatcher ==
    \/ Cancel
    \/ ImmediateSelect
    \/ ImmediateResponse
    \/ DebounceSelect
    \/ DebounceResponse
    \/ BatchSelect
    \/ BatchResponse

InitWatcher ==
    /\ InitServer
    /\ strategy \in Strategies
    /\ InitWatcherVars
    /\ ahist = [updates |-> 0, last |-> NoCall, prev |-> NoCall]
    /\ InitExtra

SpecWatcher == InitWatcher /\ [][NextWatcher]_vars

\* The goroutine of Watch is scheduled, and a blocking query returns: after
\* WaitTime at the latest, or with an error once its context is cancelled.
SpecWatcherFair == SpecWatcher /\ WF_vars(NextWatcher)

\* Time passes while Watch runs: a blocking query that brings nothing new
\* returns after its wait time and a failed one is followed by the sleep, so
\* a running timer is not kept from expiring by queries that take no time.
SpecWatcherTimed ==
    /\ SpecWatcherFair
    /\ SF_vars(NextWatcher /\ watcher.timer > 0 /\ watcher'.timer < watcher.timer)

\* ------------------------------------------- UpdateServices, one at a time
\* A whole UpdateServices call with no other goroutine in the aggregator and
\* no node known to the cache: the slot write, the merge, the build with a
\* fresh version and the snapshot set under the reference key.
UpdateServices(loaderId, services) ==
    /\ ahist.updates < MaxUpdates
    /\ LET slots == WriteSlot(discoveredServiceMap, loaderId, services)
       IN  /\ discoveredServiceMap' = slots
           /\ \E merged \in Merges(slots) :
                /\ snapshots' = [snapshots EXCEPT ![REF] =
                                    [version |-> version + 1, services |-> merged]]
                /\ ahist' = [updates |-> ahist.updates + 1,
                             prev |-> ahist.last,
                             last |-> [loaderId |-> loaderId, services |-> services,
                                       before |-> discoveredServiceMap,
                                       slots |-> slots, merged |-> merged,
                                       version |-> version + 1]]
    /\ version' = version + 1
    /\ UNCHANGED <<th, calls, statusKeys, respCh, watch, xdsVars, hist, watchVars, extraVars>>

NextAgg == \E loaderId \in Loaders : \E services \in SlotChoices(loaderId) :
              UpdateServices(loaderId, services)

SpecAgg == Init /\ [][NextAgg]_vars

\* ------------------------------ BuildAndPushSnapshot under errors
\* The envoy nodes that may join while builds run.
FaultNodes == {"envoy1", "envoy2"}

\* The merged lists given to BuildAndPushSnapshot.
BuildLists == {<<"api">>, <<"api", "shop">>, <<"web", "shop">>, <<"web">>}

\* The marshal calls of a build of the list that can return an error, one at
\* most in a build: anypb.New of the DnsCluster config of a service that is
\* not skipped (line 112), of its HTTP/2 options when it has EnableHTTP2
\* (line 144), of its TLS context when it has EnableTLS (line 174), and of
\* the HTTP connection manager (line 307), reached when a service is kept.
MarshalErrors(services) ==
    {[kind |-> "none", at |-> 0]}
    \cup {[kind |-> "dns", at |-> i] : i \in DOMAIN Kept(services)}
    \cup {[kind |-> "http2", at |-> i] :
             i \in {j \in DOMAIN Kept(services) : Catalog[Kept(services)[j]].EnableHTTP2}}
    \cup {[kind |-> "tls", at |-> i] :
             i \in {j \in DOMAIN Kept(services) : Catalog[Kept(services)[j]].EnableTLS}}
    \cup (IF Len(Kept(services)) > 0 THEN {[kind |-> "hcm", at |-> 0]} ELSE {})

\* The list without its element at i.
WithoutAt(seq, i) == SubSeq(seq, 1, i - 1) \o SubSeq(seq, i + 1, Len(seq))

\* Lines 112-116: when the DnsCluster config of a service fails to marshal
\* the loop goes on to the next service (continue): the load assignment of
\* the service is already in endpoints (line 99), its cluster and its routes
\* are not built.
WithCluster(services, e) ==
    IF e.kind = "dns" THEN WithoutAt(Kept(services), e.at) ELSE Kept(services)

\* What becomes of a build: a failed HTTP/2 or TLS marshal panics (lines 146,
\* 176); a failed connection manager marshal returns before the version is
\* taken (lines 308-311), on the path with clusters only; otherwise the
\* snapshot is built and pushed.
Outcome(services, e) ==
    CASE e.kind \in {"http2", "tls"} -> "panic"
      [] e.kind = "hcm" /\ Len(WithCluster(services, e)) > 0 -> "aborted"
      [] OTHER -> "pushed"

\* The resources of the snapshot of a build that is pushed.
FaultyResources(services, e) ==
    IF Len(WithCluster(services, e)) = 0
    THEN [clusters |-> <<>>, endpoints |-> <<>>, routes |-> <<>>, listeners |-> 0]
    ELSE [clusters  |-> IndexResourcesByName(
                            [i \in DOMAIN WithCluster(services, e) |->
                                Cluster(WithCluster(services, e)[i])],
                            [i \in DOMAIN WithCluster(services, e) |->
                                Catalog[WithCluster(services, e)[i]].Name]),
          endpoints |-> IndexResourcesByName(Endpoints(services),
                            [i \in DOMAIN Endpoints(services) |->
                                Endpoints(services)[i].ClusterName]),
          routes    |-> AllRoutes(WithCluster(services, e)),
          listeners |-> 1]

\* Lines 348-360 (260-269 on the empty path): the keys SetSnapshot is called
\* for, of the reference key followed by the node IDs: an error is logged and
\* the loop goes on.
AttemptedUntilError(keys, setErr) ==
    {keys[i] : i \in {j \in DOMAIN keys : \A k \in 1..(j - 1) : keys[k] \notin setErr}}

Attempted(keys, setErr) == {keys[i] : i \in DOMAIN keys}

\* One BuildAndPushSnapshot call, alone: e is the marshal call that fails,
\* setErr the keys for which SetSnapshot returns an error and stored those of
\* them for which the cache has replaced the snapshot all the same.
BuildAndPushSnapshot(services, e, setErr, stored) ==
    /\ fault.builds < MaxBuilds
    /\ fault.last.outcome # "panic"
    /\ LET out  == Outcome(services, e)
           snap == [version |-> version + 1, services |-> services]
       IN  /\ IF out = "pushed"
              THEN /\ version' = version + 1
                   /\ \E order \in Orderings(statusKeys) :
                        snapshots' =
                           [k \in DOMAIN snapshots |->
                               IF /\ k \in Attempted(<<REF>> \o order, setErr)
                                  /\ (k \notin setErr \/ k \in stored)
                               THEN snap ELSE snapshots[k]]
              ELSE UNCHANGED <<version, snapshots>>
           /\ fault' = [builds |-> fault.builds + 1,
                        last |-> [services |-> services, marshalErr |-> e,
                                  setErr |-> setErr,
                                  keys |-> {REF} \cup statusKeys,
                                  before |-> snapshots, outcome |-> out,
                                  version |-> IF out = "pushed" THEN version + 1 ELSE 0,
                                  resources |-> IF out = "pushed"
                                                THEN FaultyResources(services, e)
                                                ELSE <<>>]]
    /\ UNCHANGED <<discoveredServiceMap, th, calls, statusKeys, respCh, watch,
                   xdsVars, hist, watchVars, ahist, life, conv>>

\* The first request of a node: OnStreamRequest copies the reference
\* snapshot under the node's key and the cache then knows the node.
NodeJoins(n) ==
    /\ fault.last.outcome # "panic"
    /\ n \notin statusKeys
    /\ snapshots[REF] # NoSnapshot
    /\ snapshots' = [snapshots EXCEPT ![n] = snapshots[REF]]
    /\ statusKeys' = statusKeys \cup {n}
    /\ UNCHANGED <<aggVars, respCh, watch, xdsVars, hist, watchVars, ahist, extraVars>>

NextFault ==
    \/ \E services \in BuildLists : \E e \in MarshalErrors(services) :
         \E setErr \in SUBSET ({REF} \cup statusKeys) : \E stored \in SUBSET setErr :
            BuildAndPushSnapshot(services, e, setErr, stored)
    \/ \E n \in FaultNodes : NodeJoins(n)

InitFault ==
    /\ discoveredServiceMap = <<>>
    /\ version = 1
    /\ snapshots = [k \in {REF} \cup FaultNodes |-> NoSnapshot]
    /\ statusKeys = {}
    /\ th = [t \in Threads |-> Idle]
    /\ calls = [t \in Threads |-> 0]
    /\ stream = StreamClosed
    /\ reqCh = <<>>
    /\ respCh = <<>>
    /\ watch = NoWatch
    /\ client = [version |-> 0, pending |-> <<>>, nacks |-> 0]
    /\ hist = [lastAcked |-> 0, ackedNoNewer |-> {}, nacked |-> {}, touched |-> FALSE,
               refused |-> FALSE]
    /\ strategy = "immediate"
    /\ InitWatcherVars
    /\ ahist = [updates |-> 0, last |-> NoCall, prev |-> NoCall]
    /\ InitExtra

SpecFault == InitFault /\ [][NextFault]_vars

\* ------------------------------------------------- main and its tasks
\* The sources the flags can enable.
Sources == {"consul", "yaml", "marathon"}

\* main.go lines 138-162: where main goes after a stage: yaml.LoadConfig,
\* then marathon.LoadConfig, then signal.Notify and <-stop.
StageAfter(enabled, stage) ==
    IF stage = "start" /\ "yaml" \in enabled THEN "yaml"
    ELSE IF stage \in {"start", "yaml"} /\ "marathon" \in enabled THEN "marathon"
    ELSE "signal"

\* The process runs.
Running == life.exit = "none"

\* wg.Wait(): the gRPC goroutine, the admin goroutine and the consul
\* goroutine have returned.
AllReturned(l) ==
    /\ l.grpc = "returned"
    /\ l.admin = "returned"
    /\ l.consul \in {"off", "returned"}

\* Variant: main waits for the tasks only.
SelectReadyDoneOnly(l) == AllReturned(l)

\* main.go lines 176-181: the select is ready when done is closed or the
\* shutdown context has timed out.
SelectReady(l) == AllReturned(l) \/ l.waited >= shutdownTimeout

\* yaml.LoadConfig: an error ends the process with os.Exit(1).
YamlLoad(ok) ==
    /\ Running
    /\ life.main = "yaml"
    /\ life' = IF ok THEN [life EXCEPT !.main = StageAfter(life.enabled, "yaml")]
               ELSE [life EXCEPT !.main = "exited", !.exit = "exit1"]
    /\ UNCHANGED <<serverVars, watchVars, ahist, fault, conv>>

\* marathon.LoadConfig, on the main goroutine: the timer fires and loadConfig
\* runs; when it returns an error LoadConfig returns it and main calls
\* os.Exit(1), else UpdateServices has run and the timer is reset.
MarathonPoll(ok) ==
    /\ Running
    /\ life.main = "marathon"
    /\ life.polls < MaxPolls
    /\ life' = IF ok
               THEN [life EXCEPT !.polls = @ + 1, !.lastPoll = "ok", !.updates = @ + 1]
               ELSE [life EXCEPT !.polls = @ + 1, !.lastPoll = "failed",
                                 !.main = "exited", !.exit = "exit1"]
    /\ UNCHANGED <<serverVars, watchVars, ahist, fault, conv>>

\* SIGINT or SIGTERM after startup. signal.Notify is called only once main
\* has passed the sources (line 160): before that the signal has its default
\* effect and ends the process.
Signal ==
    /\ Running
    /\ ~life.signalled
    /\ \/ life.main = "signal"
       \/ life.main = "marathon" /\ life.polls >= 1
    /\ life' = IF life.main = "signal"
               THEN [life EXCEPT !.signalled = TRUE]
               ELSE [life EXCEPT !.signalled = TRUE, !.main = "exited",
                                 !.exit = "killed"]
    /\ UNCHANGED <<serverVars, watchVars, ahist, fault, conv>>

\* main.go lines 162-173: <-stop, cancel(), and the shutdown timer starts.
MainCancel ==
    /\ Running
    /\ life.main = "signal"
    /\ life.signalled
    /\ life' = [life EXCEPT !.cancelled = TRUE, !.main = "wait", !.waited = 0]
    /\ UNCHANGED <<serverVars, watchVars, ahist, fault, conv>>

\* An envoy node opens or closes its ADS stream; the stream handlers run on
\* context.Background() (line 94) and do not end with the root context.
ClientStream ==
    /\ Running
    /\ IF life.streamOpen THEN life.grpc # "returned" ELSE life.grpc = "serving"
    /\ life' = [life EXCEPT !.streamOpen = ~@]
    /\ UNCHANGED <<serverVars, watchVars, ahist, fault, conv>>

\* RunGRPC: ctx.Done is read and GracefulStop is called; it returns when no
\* stream is open, and RunGRPC then returns.
GrpcStop ==
    /\ Running
    /\ life.cancelled
    /\ IF life.grpc = "serving"
       THEN life' = [life EXCEPT !.grpc = "stopping"]
       ELSE /\ life.grpc = "stopping"
            /\ ~life.streamOpen
            /\ life' = [life EXCEPT !.grpc = "returned"]
    /\ UNCHANGED <<serverVars, watchVars, ahist, fault, conv>>

\* The consul goroutine: Watch returns once the context is cancelled.
ConsulReturn ==
    /\ Running
    /\ life.cancelled
    /\ life.consul = "running"
    /\ life' = [life EXCEPT !.consul = "returned"]
    /\ UNCHANGED <<serverVars, watchVars, ahist, fault, conv>>

\* A second passes while main is at the select of lines 176-181.
Tick ==
    /\ Running
    /\ life.main = "wait"
    /\ ~SelectReady(life)
    /\ life.waited <= shutdownTimeout
    /\ life' = [life EXCEPT !.waited = @ + 1]
    /\ UNCHANGED <<serverVars, watchVars, ahist, fault, conv>>

\* main.go lines 176-181: the select ends.
MainSelect ==
    /\ Running
    /\ life.main = "wait"
    /\ SelectReady(life)
    /\ life' = [life EXCEPT !.main = "admin"]
    /\ UNCHANGED <<serverVars, watchVars, ahist, fault, conv>>

\* main.go lines 184-191: admin.Shutdown, with its own timeout, and main
\* returns.
AdminShutdown ==
    /\ Running
    /\ life.main = "admin"
    /\ life' = [life EXCEPT !.admin = "returned", !.main = "exited",
                            !.exit = "returned"]
    /\ UNCHANGED <<serverVars, watchVars, ahist, fault, conv>>

NextMain ==
    \/ \E ok \in BOOLEAN : YamlLoad(ok)
    \/ \E ok \in BOOLEAN : MarathonPoll(ok)
    \/ Signal
    \/ MainCancel
    \/ ClientStream
    \/ GrpcStop
    \/ ConsulReturn
    \/ Tick
    \/ MainSelect
    \/ AdminShutdown

\* Any combination of enabled sources; main.go lines 60-63 exit when none is.
InitMain ==
    /\ InitServer
    /\ strategy = "immediate"
    /\ InitWatcherVars
    /\ ahist = [updates |-> 0, last |-> NoCall, prev |-> NoCall]
    /\ fault = [builds |-> 0, last |-> NoBuild]
    /\ conv = NoConv
    /\ \E enabled \in (SUBSET Sources) \ {{}} :
         life = [LifeStart EXCEPT
                    !.enabled = enabled,
                    !.main = StageAfter(enabled, "start"),
                    !.consul = IF "consul" \in enabled THEN "running" ELSE "off"]

SpecMain == InitMain /\ [][NextMain]_vars

\* ------------------------------------------------- ParseServiceRoutes
\* A metadata key is written as the sequence of its parts between the
\* underscores: route_1_path_prefix is <<"route", "1", "path", "prefix">>.
MetaKeys ==
    {<<"route", "1", "path", "prefix">>, <<"route", "1", "match", "type">>,
     <<"route", "2", "path", "prefix">>, <<"route", "2", "header", "name">>,
     <<"route", "10", "path", "prefix">>, <<"route", "11", "path", "prefix">>,
     <<"route", "0", "path", "prefix">>, <<"route", "01", "path", "prefix">>,
     <<"route", "3">>, <<"version">>}

\* The value of a key: a path prefix is empty or "/" and the number of its
\* route, a match type is "header", any other value is "x".
MetaValue(key, empty) ==
    IF Len(key) = 4 /\ SubSeq(key, 3, 4) = <<"path", "prefix">>
    THEN (IF empty THEN "" ELSE "/" \o key[2])
    ELSE IF Len(key) = 4 /\ SubSeq(key, 3, 4) = <<"match", "type">>
    THEN "header"
    ELSE "x"

\* entry.Service.Meta: a map from keys to values.
Metas ==
    UNION {{[key \in keys |-> MetaValue(key, key \in empties)] :
               empties \in SUBSET {k \in keys : MetaValue(k, TRUE) = ""}} :
           keys \in {ks \in SUBSET MetaKeys : Cardinality(ks) <= MaxMetaKeys}}

\* strings.HasPrefix(key, "route_") and len(strings.SplitN(key, "_", 3)) == 3
IsRouteKey(key) == key[1] = "route" /\ Len(key) >= 3

\* routeMap[routeNum][fieldName] = value, with routeNum = parts[1] and
\* fieldName = parts[2], the rest of the key.
routeMap(meta) ==
    [routeNum \in {key[2] : key \in {k \in DOMAIN meta : IsRouteKey(k)}} |->
        [fieldName \in {SubSeq(key, 3, Len(key)) :
                           key \in {k \in DOMAIN meta :
                                       IsRouteKey(k) /\ k[2] = routeNum}} |->
            meta[<<"route", routeNum>> \o fieldName]]]

\* The value of a field of a route, or the default when the field is absent.
FieldOr(routeConfig, fieldName, default) ==
    IF fieldName \in DOMAIN routeConfig THEN routeConfig[fieldName] ELSE default

\* Lines 193-221: the pattern of route routeNum before the test of its prefix.
RoutePattern(svc, routeNum, routeConfig) ==
    [Name       |-> <<svc, "route", ToString(routeNum)>>,
     MatchType  |-> FieldOr(routeConfig, <<"match", "type">>, "path"),
     PathPrefix |-> FieldOr(routeConfig, <<"path", "prefix">>, ""),
     HeaderName |-> FieldOr(routeConfig, <<"header", "name">>, ""),
     Hosts      |-> <<"*">>]

\* Variant: a route without a path prefix is kept.
KeepRouteAlways(rp) == TRUE

\* Lines 223-227: a route with an empty PathPrefix is dropped with a warning.
KeepRoute(rp) == rp.PathPrefix # ""

\* for routeNum := 1; routeNum <= 10; routeNum++
RECURSIVE RoutesFrom(_, _, _)
RoutesFrom(svc, routeNum, rm) ==
    IF routeNum > maxRoutes THEN <<>>
    ELSE (IF ToString(routeNum) \in DOMAIN rm
             /\ KeepRoute(RoutePattern(svc, routeNum, rm[ToString(routeNum)]))
          THEN <<RoutePattern(svc, routeNum, rm[ToString(routeNum)])>>
          ELSE <<>>)
         \o RoutesFrom(svc, routeNum + 1, rm)

ParseServiceRoutes(svc, meta) ==
    IF DOMAIN routeMap(meta) = {} THEN <<>> ELSE RoutesFrom(svc, 1, routeMap(meta))

\* ParseServiceRoutes is called with the entry of a service.
ParseRoutes(meta) ==
    /\ conv.fn = "none"
    /\ conv' = [fn |-> "ParseServiceRoutes", in |-> meta,
                out |-> ParseServiceRoutes("api", meta)]
    /\ UNCHANGED <<serverVars, watchVars, ahist, fault, life>>

\* The next input of the function under study: the next entry, the next poll.
ParseDone ==
    /\ conv.fn # "none"
    /\ conv' = NoConv
    /\ UNCHANGED <<serverVars, watchVars, ahist, fault, life>>

NextRoutes ==
    \/ \E meta \in Metas : ParseRoutes(meta)
    \/ ParseDone

SpecRoutes == Init /\ [][NextRoutes]_vars

\* ------------------------------------------- convertToDiscoveredServices
\* App ids, written as the sequence of their characters.
AppIds ==
    {<<"/", "a">>, <<"/", "a", "/", "b", "-", "c">>, <<"a", "-", "b">>}

\* Port definitions of an app: name and labels.
PortDefinitionLists ==
    {<<>>,
     <<[Name |-> "http", Labels |-> <<>>]>>,
     <<[Name |-> "http", Labels |-> [http2 |-> "true"]],
       [Name |-> "grpc", Labels |-> <<>>]>>}

\* Tasks of an app; a task has one port for every port definition.
MarathonTasks ==
    [t1 |-> [State |-> "TASK_RUNNING", HealthCheckResults |-> <<FALSE, TRUE>>,
             IPAddresses |-> <<[Protocol |-> "IPv6", IPAddress |-> "::1"],
                               [Protocol |-> "IPv4", IPAddress |-> "10.0.0.1"]>>,
             Host |-> "h1", Ports |-> <<31001, 31002>>],
     t2 |-> [State |-> "TASK_RUNNING", HealthCheckResults |-> <<TRUE>>,
             IPAddresses |-> <<>>, Host |-> "h2", Ports |-> <<31003, 31004>>],
     t3 |-> [State |-> "TASK_RUNNING", HealthCheckResults |-> <<>>,
             IPAddresses |-> <<>>, Host |-> "h3", Ports |-> <<31005, 31006>>],
     t4 |-> [State |-> "TASK_STAGING", HealthCheckResults |-> <<TRUE>>,
             IPAddresses |-> <<>>, Host |-> "h4", Ports |-> <<31007, 31008>>]]

TaskLists ==
    {<<>>, <<MarathonTasks.t1>>, <<MarathonTasks.t3>>,
     <<MarathonTasks.t4, MarathonTasks.t2>>,
     <<MarathonTasks.t1, MarathonTasks.t3, MarathonTasks.t2>>}

MarathonApps == [ID : AppIds, PortDefinitions : PortDefinitionLists, Tasks : TaskLists]

\* The apps of a poll.
AppLists == UNION {[1..n -> MarathonApps] : n \in 0..MaxApps}

\* marathonTask.IsHealthy
IsHealthy(t) ==
    /\ t.State = "TASK_RUNNING"
    /\ Len(t.HealthCheckResults) # 0
    /\ \E i \in DOMAIN t.HealthCheckResults : t.HealthCheckResults[i]

\* getTaskAddress: the first non-empty IPv4 address, else the host.
getTaskAddress(task) ==
    LET v4 == SelectSeq(task.IPAddresses,
                        LAMBDA ip : ip.Protocol = "IPv4" /\ ip.IPAddress # "")
    IN  IF v4 # <<>> THEN v4[1].IPAddress ELSE task.Host

\* app.ID[1:]
DropFirst(id) == Tail(id)

\* strings.NewReplacer("/", "_", "-", "_").Replace(app.ID[1:])
sanitizedAppId(id) ==
    [i \in DOMAIN DropFirst(id) |->
        IF DropFirst(id)[i] \in {"/", "-"} THEN "_" ELSE DropFirst(id)[i]]

\* fmt.Sprintf("mesos_%s_%s", sanitizedAppId, portDef.Name), as the sequence
\* of its pieces.
serviceName(id, portDef) ==
    <<"mesos", "_">> \o sanitizedAppId(id) \o <<"_", portDef.Name>>

\* if len(healthyTasks) == 0 { continue }
AppSkipped(app) == SelectSeq(app.Tasks, IsHealthy) = <<>>

\* The services of one app: one for every port definition, with the healthy
\* tasks as instances.
AppServices(app) ==
    IF AppSkipped(app) THEN <<>>
    ELSE [portIndex \in DOMAIN app.PortDefinitions |->
            [Name        |-> serviceName(app.ID, app.PortDefinitions[portIndex]),
             Instances   |-> [t \in DOMAIN SelectSeq(app.Tasks, IsHealthy) |->
                                [Address |-> getTaskAddress(SelectSeq(app.Tasks, IsHealthy)[t]),
                                 Port    |-> SelectSeq(app.Tasks, IsHealthy)[t].Ports[portIndex]]],
             EnableHTTP2 |-> \/ app.PortDefinitions[portIndex].Name = "grpc"
                             \/ /\ "http2" \in DOMAIN app.PortDefinitions[portIndex].Labels
                                /\ app.PortDefinitions[portIndex].Labels.http2 = "true"]]

RECURSIVE convertToDiscoveredServices(_)
convertToDiscoveredServices(apps) ==
    IF apps = <<>> THEN <<>>
    ELSE AppServices(Head(apps)) \o convertToDiscoveredServices(Tail(apps))

\* loadConfig converts the apps of the answer.
Convert(apps) ==
    /\ conv.fn = "none"
    /\ conv' = [fn |-> "convertToDiscoveredServices", in |-> apps,
                out |-> convertToDiscoveredServices(apps)]
    /\ UNCHANGED <<serverVars, watchVars, ahist, fault, life>>

NextMarathon ==
    \/ \E apps \in AppLists : Convert(apps)
    \/ ParseDone

SpecMarathon == Init /\ [][NextMarathon]_vars

\* ------------------------------------------------- the consul handler
\* The services of the registry's catalog.
HandlerServices == {"a", "b"}

\* Healthy entries of a service: ModifyIndex, the address of the service and
\* of its node, and the metadata.
HealthEntries ==
    {[ModifyIndex |-> 1, Address |-> "10.0.0.1", NodeAddress |-> "10.1.0.1", Port |-> 80,
      Meta |-> (<<"http2">> :> "true") @@ (<<"route", "1", "path", "prefix">> :> "/old")],
     [ModifyIndex |-> 2, Address |-> "", NodeAddress |-> "", Port |-> 81,
      Meta |-> (<<"route", "1", "path", "prefix">> :> "/new")],
     [ModifyIndex |-> 2, Address |-> "", NodeAddress |-> "10.1.0.3", Port |-> 82,
      Meta |-> (<<"http2">> :> "true") @@ (<<"route", "2", "path", "prefix">> :> "/two")]}

\* What client.Health().Service(svc, "", true, nil) can return: an error, or
\* healthy entries; the list is sorted before it is used, so the answer is
\* kept as the set of its entries.
HealthResults ==
    {[err |-> TRUE, entries |-> {}]} \cup
    {[err |-> FALSE, entries |-> es] :
        es \in {T \in SUBSET HealthEntries : Cardinality(T) <= MaxEntries}}

\* sort.Slice(entries, ModifyIndex descending): the sort is not stable, so
\* entries of equal ModifyIndex may come out in either order.
SortedEntries(entries) ==
    {es \in Orderings(entries) :
        \A i, j \in DOMAIN es : i < j => es[i].ModifyIndex >= es[j].ModifyIndex}

\* addr := e.Service.Address; if addr == "" { addr = e.Node.Address }
EntryAddress(e) == IF e.Address = "" THEN e.NodeAddress ELSE e.Address

\* The loop over the entries: an entry without any address is left out.
EntryInstances(entries) ==
    LET WithAddress == SelectSeq(entries, LAMBDA e : EntryAddress(e) # "")
    IN  [i \in DOMAIN WithAddress |->
            [Address |-> EntryAddress(WithAddress[i]), Port |-> WithAddress[i].Port]]

\* The DiscoveredService of svc from its sorted entries: with an entry,
\* http2 and the routes come from entries[0].
DiscoveredService(svc, entries) ==
    [Name        |-> svc,
     Instances   |-> EntryInstances(entries),
     Routes      |-> IF entries = <<>> THEN <<>>
                     ELSE ParseServiceRoutes(svc, entries[1].Meta),
     EnableHTTP2 |-> /\ entries # <<>>
                     /\ <<"http2">> \in DOMAIN entries[1].Meta
                     /\ entries[1].Meta[<<"http2">>] = "true"]

\* Variant: only a failed health query leaves the service out.
HealthSkippedOnError(result) == result.err

\* if err != nil { continue }; if len(entries) == 0 { continue }
HealthSkipped(result) == result.err \/ Cardinality(result.entries) = 0

\* The lists the handler can pass to UpdateServices for the services given,
\* health[svc] being the answer of the health query of svc.
RECURSIVE HandlerLists(_, _)
HandlerLists(services, health) ==
    IF services = <<>> THEN {<<>>}
    ELSE IF HealthSkipped(health[Head(services)])
    THEN HandlerLists(Tail(services), health)
    ELSE {<<DiscoveredService(Head(services), es)>> \o r :
             es \in SortedEntries(health[Head(services)].entries),
             r \in HandlerLists(Tail(services), health)}

\* The immediate watcher and the handler before the first response; since
\* counts the responses after the last run of the handler.
HandlerStart ==
    [fn |-> "none", in |-> <<>>, out |-> <<>>, lastIndex |-> 0, index |-> 0,
     runs |-> 0, queries |-> 0, since |-> 0, slot |-> <<>>]

\* The service lists of a catalog response, with the health of each service.
HandlerInputs ==
    UNION {[services : {o}, health : [{o[i] : i \in DOMAIN o} -> HealthResults]] :
              o \in UNION {Orderings(S) : S \in SUBSET HandlerServices}}

\* A catalog response with the index unchanged: the loop continues.
HandlerSameIndex ==
    /\ conv.queries < MaxQueries
    /\ conv' = [conv EXCEPT !.queries = @ + 1, !.since = @ + 1,
                            !.index = conv.lastIndex]
    /\ UNCHANGED <<serverVars, watchVars, ahist, fault, life>>

\* A catalog response with another index: lastIndex is assigned, the handler
\* runs on the names of the response and UpdateServices("consul_loader", ...)
\* stores its list.
HandlerResponse(in) ==
    /\ conv.queries < MaxQueries
    /\ conv.runs < MaxRuns
    /\ \E out \in HandlerLists(in.services, in.health) :
         conv' = [fn |-> "handler", in |-> in, out |-> out,
                  lastIndex |-> conv.lastIndex + 1,
                  index |-> conv.lastIndex + 1,
                  runs |-> conv.runs + 1, queries |-> conv.queries + 1,
                  since |-> 0, slot |-> out]
    /\ UNCHANGED <<serverVars, watchVars, ahist, fault, life>>

NextHandler ==
    \/ HandlerSameIndex
    \/ \E in \in HandlerInputs : HandlerResponse(in)

InitHandler ==
    /\ InitServer
    /\ strategy = "immediate"
    /\ InitWatcherVars
    /\ ahist = [updates |-> 0, last |-> NoCall, prev |-> NoCall]
    /\ fault = [builds |-> 0, last |-> NoBuild]
    /\ life = LifeStart
    /\ conv = HandlerStart

SpecHandler == InitHandler /\ [][NextHandler]_vars

\* ------------------------------------------------- Uint32SliceFlag
\* The values given on the command line, as sequences of characters: two
\* digits, the separator, the blank and a letter.
FlagValues ==
    UNION {[1..n -> {"7", "0", ",", " ", "x"}] : n \in 0..MaxChars}

DecimalDigits == <<"0", "1", "2", "3", "4", "5", "6", "7", "8", "9">>

\* strings.Split(value, ","): the pieces between the separators; a value
\* without a separator, the empty one too, is one piece.
RECURSIVE Split(_)
Split(value) ==
    IF value = <<>> THEN << <<>> >>
    ELSE LET rest == Split(Tail(value)) IN
         IF Head(value) = "," THEN << <<>> >> \o rest
         ELSE << <<Head(value)>> \o Head(rest) >> \o Tail(rest)

\* strings.TrimSpace(part): the blanks at both ends are dropped.
RECURSIVE TrimSpace(_)
TrimSpace(part) ==
    IF part = <<>> THEN part
    ELSE IF Head(part) = " " THEN TrimSpace(Tail(part))
    ELSE IF part[Len(part)] = " " THEN TrimSpace(SubSeq(part, 1, Len(part) - 1))
    ELSE part

\* strconv.ParseUint(part, 10, 32): an error for the empty string, for any
\* character that is not a decimal digit and for a value that does not fit
\* in 32 bits; leading zeros are accepted.
\* The range test is made before the next digit is added: the value fits
\* in 32 bits when it is at most 4294967295 = 429496729 * 10 + 5.
maxUint32Div10 == 429496729

RECURSIVE ParseDigits(_, _)
ParseDigits(part, acc) ==
    IF part = <<>> THEN [err |-> FALSE, v |-> acc]
    ELSE IF \A d \in 1..10 : DecimalDigits[d] # Head(part)
         THEN [err |-> TRUE, v |-> 0]
    ELSE LET d == CHOOSE d \in 1..10 : DecimalDigits[d] = Head(part)
         IN IF acc > maxUint32Div10 \/ (acc = maxUint32Div10 /\ d - 1 > 5)
            THEN [err |-> TRUE, v |-> 0]
            ELSE ParseDigits(Tail(part), acc * 10 + (d - 1))

ParseUint(part) ==
    IF part = <<>> THEN [err |-> TRUE, v |-> 0] ELSE ParseDigits(part, 0)

\* Variant: Set starts from the empty slice and replaces the value.
SetStartEmpty(f) == <<>>

\* Set line 35, *f = append(*f, ...): the loop appends to the slice the
\* flag holds when Set is called.
SetStart(f) == f

\* Set lines 26-36: the loop over the parts; an empty part is skipped, an
\* invalid one returns the error with what was appended so far in *f.
RECURSIVE SetLoop(_, _)
SetLoop(f, parts) ==
    IF parts = <<>> THEN [value |-> f, err |-> FALSE]
    ELSE LET part == TrimSpace(Head(parts)) IN
         IF part = <<>> THEN SetLoop(f, Tail(parts))
         ELSE LET r == ParseUint(part) IN
              IF r.err THEN [value |-> f, err |-> TRUE]
              ELSE SetLoop(Append(f, r.v), Tail(parts))

\* Uint32SliceFlag.Set(value) on a flag holding f.
Set(f, value) == SetLoop(SetStart(f), Split(value))

\* main.go line 42: the default of listenerPorts.
listenerPorts == <<18080>>

\* BuildAndPushSnapshot lines 313-332: one listener per port of
\* s.listenerPorts, in order, named listener_<port>.
Listeners(ports) ==
    [i \in DOMAIN ports |-> [name |-> <<"listener_", ports[i]>>, port |-> ports[i]]]

\* flag.Parse meets one more --listener-ports on the command line and calls
\* Set; on an error the flag package prints it and exits (ExitOnError).
FlagSet(value) ==
    /\ conv.pc = "parse"
    /\ conv.used + Len(value) <= MaxChars
    /\ LET r == Set(conv.value, value) IN
        conv' = [conv EXCEPT !.fn = "Set", !.in = value, !.before = conv.value,
                             !.value = r.value, !.out = r.value, !.err = r.err,
                             !.used = @ + Len(value),
                             !.pc = IF r.err THEN "exit" ELSE "parse"]
    /\ UNCHANGED <<serverVars, watchVars, ahist, fault, life>>

\* flag.Parse has returned; main.go line 86 hands listenerPorts to the
\* snapshot manager, whose builds make the listeners.
FlagListeners ==
    /\ conv.pc = "parse"
    /\ conv' = [conv EXCEPT !.pc = "run", !.listeners = Listeners(conv.value)]
    /\ UNCHANGED <<serverVars, watchVars, ahist, fault, life>>

NextFlag ==
    \/ \E value \in FlagValues : FlagSet(value)
    \/ FlagListeners

\* main before flag.Parse: the flag holds its default.
InitFlag ==
    /\ InitServer
    /\ strategy = "immediate"
    /\ InitWatcherVars
    /\ ahist = [updates |-> 0, last |-> NoCall, prev |-> NoCall]
    /\ fault = [builds |-> 0, last |-> NoBuild]
    /\ life = LifeStart
    /\ conv = [fn |-> "flag", in |-> <<>>, out |-> <<>>, value |-> listenerPorts,
               before |-> <<>>, used |-> 0, err |-> FALSE, pc |-> "parse",
               listeners |-> <<>>]

SpecFlag == InitFlag /\ [][NextFlag]_vars

\* ------------------------------------------------------------------ claims
\* The list l is the concatenation of the slots of m in some order.
IsMergeOf(l, m) == \E order \in Orderings(DOMAIN m) : l = Concat(m, order)

\* C1: calls to UpdateServices are serialized: at no time are two goroutines
\* inside UpdateServices (slot write, merge, BuildAndPushSnapshot).
C1_UpdateServicesSerialized ==
    Cardinality({t \in Threads : th[t].pc \notin {"idle", "fatal"}}) <= 1

\* C2: each snapshot installed under the reference key has a version strictly
\* greater than the one it replaces.
C2_ReferenceVersionIncreases ==
    [][snapshots'[REF] # snapshots[REF]
          => snapshots'[REF].version > snapshots[REF].version]_vars

\* C3: once every UpdateServices call has returned, the snapshot under the
\* reference key was built from the latest slot of every source.
C3_FinalSnapshotHasLatestSlots ==
    (TotalCalls > 0 /\ \A t \in Threads : th[t].pc = "idle")
        => IsMergeOf(snapshots[REF].services, discoveredServiceMap)

\* The step is the stream sending a response to the node.
SendStep == stream'.nonce = stream.nonce + 1

\* The step is the stream finishing a request that NACKs its last response.
NackHandledStep ==
    /\ stream.pc = "watch"
    /\ stream'.pc = "select"
    /\ stream'.state = "open"
    /\ stream.req.errorDetail
    /\ NonceMatches(stream.req)

\* C4: a version the node has ACKed is not sent again before a strictly newer
\* version has been installed under the node's key.
C4_AckedVersionNotResent ==
    [][SendStep => stream'.lastSent.version \notin hist.ackedNoNewer]_vars

C6_NackedVersionRetried ==
    [][NackHandledStep =>
          \/ respCh' = <<stream.lastSent.version>>
          \/ snapshots[TheNode].version > stream.lastSent.version]_vars

Ceil(k, n) == (k + n - 1) \div n

\* C7: debounce watcher, every change so far observed less than
\* debounceInterval after the one before: the handler has been called at most
\* once, and once no update is pending it has been called exactly once, with
\* the service list of the last change.
C7_DebounceOneCall ==
    (strategy = "debounce" /\ whist.changes >= 1 /\ whist.withinD) =>
        /\ whist.handler.calls <= 1
        /\ ~watcher.pendingUpdate =>
              /\ whist.handler.calls = 1
              /\ whist.handler.lastArg = ServicesAt(whist.lastChange)

\* C7 witness: three or more changes close together, applied by one call.
C7_BurstApplied ==
    /\ strategy = "debounce"
    /\ whist.changes >= 3
    /\ whist.withinD
    /\ ~watcher.pendingUpdate
    /\ whist.handler.calls = 1

\* C8 as stated: batch watcher, no gap longer than batchTimeout between
\* consecutive changes (here: every gap even shorter than batchTimeout): once
\* every change is applied the handler has been called ceil(k / maxBatchSize)
\* times.
C8_BatchCallsNoLongGap ==
    (strategy = "batch" /\ whist.gapLtT /\ watcher.batchCount = 0) =>
        whist.handler.calls = Ceil(whist.changes, maxBatchSize)

\* C8 amended: batch watcher, every change observed less than batchTimeout
\* after the first one: the handler has been called once per full batch, and
\* once every change is applied ceil(k / maxBatchSize) times.
C8_BatchCallsInWindow ==
    (strategy = "batch" /\ whist.inWindow) =>
        whist.handler.calls =
            IF watcher.batchCount = 0
            THEN Ceil(whist.changes, maxBatchSize)
            ELSE whist.changes \div maxBatchSize

\* C8 witness: more changes than one batch holds, all inside the window and
\* all applied: one call for the full batch and one for the rest.
C8_TwoBatchesApplied ==
    /\ strategy = "batch"
    /\ whist.inWindow
    /\ whist.changes > maxBatchSize
    /\ watcher.batchCount = 0
    /\ whist.handler.calls = 2

\* The step is a watcher's blocking query returning.
ResponseStep == wpc = "query" /\ wpc' # "query"

\* C9: immediate watcher: the iteration of a successful query with an index
\* other than lastIndex calls the handler once, with the services of that
\* response, and goes on with the loop whatever the handler returns; nothing
\* else calls the handler.
C9_ImmediateHandlerPerChange ==
    [][strategy = "immediate" =>
          IF ResponseStep /\ whist'.resp.kind = "ok"
             /\ whist'.resp.index # watcher.lastIndex
          THEN /\ whist'.handler.calls = whist.handler.calls + 1
               /\ whist'.handler.lastArg = ServicesAt(whist'.resp.index)
               /\ wpc' = "select"
          ELSE whist'.handler.calls = whist.handler.calls]_vars

\* C9 witness: a handler call has returned an error and the loop has issued
\* the next query.
C9_LoopGoesOnAfterError ==
    /\ strategy = "immediate"
    /\ whist.handler.err
    /\ whist.handler.calls >= 2
    /\ wpc = "query"

\* C10 as stated: lastIndex never decreases.
C10_LastIndexNondecreasing ==
    [][watcher'.lastIndex >= watcher.lastIndex]_vars

\* C10 amended: lastIndex changes only when a query succeeds with an index
\* other than lastIndex, and then it becomes that index, greater or lower.
C10_LastIndexFollowsRegistry ==
    [][IF ResponseStep /\ whist'.resp.kind = "ok"
          /\ whist'.resp.index # watcher.lastIndex
       THEN watcher'.lastIndex = whist'.resp.index
       ELSE watcher'.lastIndex = watcher.lastIndex]_vars

\* C10 witness: after two or more changes lastIndex is the lowest index.
C10_LastIndexWentBack ==
    /\ whist.changes >= 2
    /\ watcher.lastIndex = 1

\* The service has an instance with an address, and a route.
Usable(s) ==
    /\ \E i \in DOMAIN Catalog[s].Instances : Catalog[s].Instances[i].Address # ""
    /\ Len(Catalog[s].Routes) >= 1

\* The resources of the snapshot under the reference key.
Pushed == Resources(snapshots[REF].services)

\* C11: a service of the list contributes a cluster, a load assignment and
\* routes exactly when it has an instance with a non-empty address and a
\* route; every cluster of the snapshot has a load assignment of its name
\* with at least one endpoint.
C11_ClustersHaveEndpoints ==
    /\ \A i \in DOMAIN snapshots[REF].services :
          LET name == Catalog[snapshots[REF].services[i]].Name
          IN  Usable(snapshots[REF].services[i]) <=>
                 /\ name \in DOMAIN Pushed.clusters
                 /\ name \in DOMAIN Pushed.endpoints
                 /\ \E r \in DOMAIN Pushed.routes : Pushed.routes[r].Cluster = name
    /\ \A n \in DOMAIN Pushed.clusters :
          /\ n \in DOMAIN Pushed.endpoints
          /\ Pushed.endpoints[n].ClusterName = n
          /\ Len(Pushed.endpoints[n].Endpoints) >= 1

\* The clusters of the snapshot under the reference key.
PushedClusters == {Pushed.clusters[n] : n \in DOMAIN Pushed.clusters}

C13_LaterSourceWinsAndWarns ==
    \A a, b \in DOMAIN discoveredServiceMap :
        \A i \in DOMAIN discoveredServiceMap[a] :
            \A j \in DOMAIN discoveredServiceMap[b] :
                (/\ a # b
                 /\ a = ahist.last.loaderId
                 /\ ~Skipped(discoveredServiceMap[a][i])
                 /\ ~Skipped(discoveredServiceMap[b][j])
                 /\ Catalog[discoveredServiceMap[a][i]].Name =
                       Catalog[discoveredServiceMap[b][j]].Name)
                => /\ Cardinality({c \in PushedClusters :
                          c.Name = Catalog[discoveredServiceMap[a][i]].Name}) = 1
                   /\ Cluster(discoveredServiceMap[a][i]) \in PushedClusters
                   /\ "duplicate service name" \in Warnings(snapshots[REF].services)

\* C14: the route order is a function of the slots: two builds in a row from
\* identical slots list the routes of local_route in the same order.
C14_SameSlotsSameRouteOrder ==
    (/\ ahist.updates >= 2
     /\ ahist.prev.slots = ahist.last.slots)
    => AllRoutes(ahist.prev.merged) = AllRoutes(ahist.last.merged)

\* The node IDs of the list.
Range(seq) == {seq[i] : i \in DOMAIN seq}

\* C15: a build that goes on to its pushes stores the snapshot it built, with
\* its one version, under the reference key, takes every key the cache knows
\* at that moment and stores the same snapshot under each of them.
C15_BuiltSnapshotInstalled ==
    [][\A t \in Threads :
        /\ (th[t].pc = "setref" /\ th'[t].pc = "keys")
              => snapshots'[REF] = th[t].snap
        /\ (th[t].pc = "keys" /\ th'[t].pc \in {"idle", "push"})
              => /\ Range(th'[t].nodeIDs) = statusKeys
                 /\ statusKeys # {} => th'[t].snap = th[t].snap
        /\ (th[t].pc = "push" /\ th'[t] # th[t] /\ th'[t].pc \in {"idle", "push"})
              => /\ snapshots'[Head(th[t].nodeIDs)] = th[t].snap
                 /\ th'[t].pc = "push" => /\ th'[t].nodeIDs = Tail(th[t].nodeIDs)
                                          /\ th'[t].snap = th[t].snap]_vars

\* A build has pushed to the node after the node's last request was served:
\* the node's key holds the reference snapshot, newer than the last response.
C15_PushedToKnownNode ==
    /\ statusKeys = {TheNode}
    /\ \A t \in Threads : th[t].pc = "idle"
    /\ stream.state = "open" /\ stream.pc = "select"
    /\ reqCh = <<>> /\ respCh = <<>> /\ watch = NoWatch
    /\ stream.lastSent.version >= 2
    /\ snapshots[TheNode] = snapshots[REF]
    /\ snapshots[REF].version > stream.lastSent.version

\* A snapshot without listeners, routes, clusters and endpoints.
NoResources == [clusters |-> <<>>, endpoints |-> <<>>, routes |-> <<>>, listeners |-> 0]

\* C16: a build whose list yields no routes is not skipped: it takes a fresh
\* version, its snapshot has no listeners, routes, clusters or endpoints, and
\* it is stored under the reference key and under every key the cache knows.
C16_EmptySnapshotPushed ==
    [][\A t \in Threads :
        /\ (/\ th[t].pc = "build"
            /\ th'[t].pc \notin {"build", "fatal"}
            /\ AllRoutes(th[t].merged) = <<>>)
              => /\ th'[t].pc = "setref"
                 /\ th'[t].snap.version = version'
                 /\ version' > version
                 /\ \A k \in DOMAIN snapshots : th'[t].snap.version > snapshots[k].version
                 /\ Resources(th'[t].snap.services) = NoResources
        /\ (/\ th[t].snap # NoSnapshot
            /\ AllRoutes(th[t].snap.services) = <<>>)
              => /\ (th[t].pc = "setref" /\ th'[t].pc = "keys")
                       => snapshots'[REF] = th[t].snap
                 /\ (th[t].pc = "keys" /\ th'[t].pc \in {"idle", "push"})
                       => Range(th'[t].nodeIDs) = statusKeys
                 /\ (th[t].pc = "push" /\ th'[t].pc = "idle")
                       => snapshots'[Head(th[t].nodeIDs)] = th[t].snap]_vars

\* An empty snapshot has replaced the reference snapshot while the node's key
\* still holds an earlier snapshot with clusters; the push to the node is next.
C16_EmptyReplacesNonEmpty ==
    \E t \in Threads :
        /\ th[t].pc = "push"
        /\ Resources(th[t].snap.services) = NoResources
        /\ snapshots[REF] = th[t].snap
        /\ Head(th[t].nodeIDs) = TheNode
        /\ Resources(snapshots[TheNode].services) # NoResources
        /\ snapshots[TheNode].version < snapshots[REF].version

C18_SecondCallSameMergedList ==
    (/\ ahist.updates >= 2
     /\ ahist.last.loaderId = ahist.prev.loaderId
     /\ ahist.last.services = ahist.prev.services)
    => /\ ahist.last.merged = ahist.prev.merged
       /\ ahist.last.version > ahist.prev.version
       /\ snapshots[REF] = [version |-> ahist.last.version, services |-> ahist.last.merged]

\* The places of the slots of m that hold the service s.
Places(m, s) ==
    UNION {{<<l, i>> : i \in {j \in DOMAIN m[l] : m[l][j] = s}} : l \in DOMAIN m}

\* The slot is a run of consecutive elements of the list l.
IsBlockOf(slot, l) ==
    \E off \in 0..(Len(l) - Len(slot)) :
        \A i \in DOMAIN slot : l[off + i] = slot[i]

\* C19: after UpdateServices(a, X) the slot of a is X and every other slot is
\* what it was; the list given to BuildAndPushSnapshot holds every service of
\* every current slot as often as the slots hold it and nothing else, each
\* slot in its own order.
C19_SlotReplacedOthersKept ==
    ahist.updates >= 1 =>
        /\ DOMAIN discoveredServiceMap = DOMAIN ahist.last.before \cup {ahist.last.loaderId}
        /\ discoveredServiceMap[ahist.last.loaderId] = ahist.last.services
        /\ \A l \in DOMAIN ahist.last.before \ {ahist.last.loaderId} :
              discoveredServiceMap[l] = ahist.last.before[l]
        /\ snapshots[REF].services = ahist.last.merged
        /\ \A s \in DOMAIN Catalog :
              Cardinality({i \in DOMAIN ahist.last.merged : ahist.last.merged[i] = s})
                 = Cardinality(Places(discoveredServiceMap, s))
        /\ \A l \in DOMAIN discoveredServiceMap :
              IsBlockOf(discoveredServiceMap[l], ahist.last.merged)

\* The file source has dropped db from its list while the registry source,
\* which made no call since, still has its slot in the merge.
C19_OmittedServiceGone ==
    /\ ahist.last.loaderId = "yaml_loader"
    /\ "yaml_loader" \in DOMAIN ahist.last.before
    /\ \E i \in DOMAIN ahist.last.before["yaml_loader"] :
          ahist.last.before["yaml_loader"][i] = "db"
    /\ \A i \in DOMAIN ahist.last.merged : ahist.last.merged[i] # "db"
    /\ "consul_loader" \in DOMAIN ahist.last.before
    /\ ahist.prev.loaderId = "yaml_loader"
    /\ IsBlockOf(ahist.last.before["consul_loader"], ahist.last.merged)

\* C20: OnStreamRequest reads the reference snapshot and, before the request
\* goes on to the cache, stores what it read under the node's key, on the
\* node's first request and on every later one.
C20_NodePrimedOnEveryRequest ==
    [][/\ (stream.pc = "select" /\ stream'.pc = "osrSet")
             => /\ snapshots[REF] # NoSnapshot
                /\ stream'.osrSnap = snapshots[REF]
       /\ (stream.pc = "osrSet" /\ stream'.pc # "osrSet" /\ stream'.state = "open")
             => /\ stream'.pc = "watch"
                /\ snapshots'[TheNode] = stream.osrSnap
       /\ (stream'.pc = "watch" /\ stream.pc # "watch")
             => stream.pc = "osrSet"]_vars

\* The first request of a node the cache does not know has been primed and
\* is about to be served.
C20_UnknownNodePrimed ==
    /\ stream.pc = "watch"
    /\ TheNode \notin statusKeys
    /\ stream.osrSnap # NoSnapshot
    /\ snapshots[TheNode] = stream.osrSnap

\* C21: when a marshal call of a build fails, the build is given up as a
\* whole: SetSnapshot is not called, every key the cache has keeps the
\* snapshot it had, and the process goes on running.
C21_MarshalFailureAbortsBuild ==
    fault.last.marshalErr.kind # "none" =>
        /\ fault.last.outcome = "aborted"
        /\ \A k \in fault.last.keys : snapshots[k] = fault.last.before[k]

\* C22: when SetSnapshot fails for a key in a build that pushes, every other
\* key the cache knows, and the reference key, is still set to the new
\* snapshot in the same call.
C22_OtherKeysStillSet ==
    fault.last.outcome = "pushed" =>
        \A k \in fault.last.keys \ fault.last.setErr :
            snapshots[k] = [version |-> fault.last.version,
                            services |-> fault.last.services]

\* SetSnapshot has failed for the reference key and for one node, and the
\* other node has the new snapshot.
C22_FailedKeyOthersSet ==
    /\ fault.last.outcome = "pushed"
    /\ fault.last.keys = {REF} \cup FaultNodes
    /\ REF \in fault.last.setErr
    /\ \E n, m \in FaultNodes :
          /\ n \in fault.last.setErr
          /\ m \notin fault.last.setErr
          /\ snapshots[n] = fault.last.before[n]
          /\ snapshots[m].version = fault.last.version
          /\ snapshots[m] # fault.last.before[m]

\* C23: after a failed marathon poll the aggregator is not updated for that
\* tick and the poll loop goes on: the process runs, main is still in
\* marathon.LoadConfig, and the failed poll has made no update.
C23_FailedPollKeepsPolling ==
    life.lastPoll = "failed" =>
        /\ Running
        /\ life.main = "marathon"
        /\ life.updates < life.polls

\* C24: a step in which the blocking query fails while the context is not
\* cancelled leaves the watcher in its loop, about to query again with the
\* same lastIndex: the handler is not called, lastIndex, the pending flag,
\* the batch counter and the latest list are unchanged, and the timer is
\* neither stopped nor reset: a stopped timer stays stopped, an armed one
\* has run on for at least the sleep.
C24_QueryErrorKeepsState ==
    [][(wpc = "query" /\ wpc' # "query" /\ whist'.resp.kind = "error") =>
          /\ wpc' = "select"
          /\ whist'.handler = whist.handler
          /\ watcher'.lastIndex = watcher.lastIndex
          /\ watcher'.pendingUpdate = watcher.pendingUpdate
          /\ watcher'.batchCount = watcher.batchCount
          /\ watcher'.latestServices = watcher.latestServices
          /\ watcher'.services = watcher.services
          /\ IF watcher.timer = -1 THEN watcher'.timer = -1
             ELSE /\ watcher'.timer >= 0
                  /\ watcher'.timer <= Advance(watcher.timer, ErrorSleep)]_vars

\* A query has failed in the middle of a batch window: the counter and the
\* index are kept and the armed timer was not stopped.
C24_ErrorDuringBatchWindow ==
    /\ strategy = "batch"
    /\ wpc = "select"
    /\ whist.resp.kind = "error"
    /\ watcher.batchCount > 1
    /\ watcher.lastIndex > 0
    /\ watcher.timer = 0

\* C25: the handler of a watcher is never called with a list that contains
\* the registry's own service "consul".
C25_HandlerNeverSeesConsul ==
    whist.handler.calls > 0 => "consul" \notin whist.handler.lastArg

\* C26: once the context is cancelled Watch eventually returns; when it has
\* returned its timer is stopped; and from a select that finds the context
\* cancelled no new blocking query is started.
C26_CancelStopsWatch ==
    /\ ctxDone ~> (wpc = "stopped")
    /\ [](wpc = "stopped" => ctxDone /\ watcher.timer = -1)
    /\ [][(ctxDone /\ wpc = "select") => wpc' # "query"]_vars

\* Watch has returned from a blocking query that was cancelled while a batch
\* window was open.
C26_CancelledInBatchWindow ==
    /\ strategy = "batch"
    /\ wpc = "stopped"
    /\ whist.resp.kind = "cancelled"
    /\ watcher.batchCount > 0
    /\ watcher.timer = -1

\* C27: in every combination of enabled sources a SIGINT or SIGTERM after
\* startup trips the root cancellation: the signal does not end the process
\* by itself, and once main has left <-stop the root context is cancelled.
C27_SignalTripsRootCancel ==
    life.signalled =>
        /\ life.exit # "killed"
        /\ life.main # "signal" => life.cancelled

\* C28: after the root context is cancelled main stays at its wait for at
\* most the shutdown timeout, and leaves it, towards the shutdown of the
\* admin server and the exit, exactly when every task has returned or the
\* timeout has passed; a task that has not returned does not keep it there.
C28_ShutdownWaitBounded ==
    /\ [](life.main = "wait" => life.cancelled /\ life.waited <= shutdownTimeout)
    /\ []((life.main = "wait" /\ life.waited = shutdownTimeout) => ENABLED MainSelect)
    /\ [][(life.main = "wait" /\ life'.main # "wait") =>
             /\ life'.main = "admin"
             /\ AllReturned(life) \/ life.waited = shutdownTimeout]_vars

\* The gRPC server is still in GracefulStop, a stream being open, when the
\* timer has fired and main has gone on.
C28_ExitWithBlockedGrpc ==
    /\ life.main = "exited"
    /\ life.exit = "returned"
    /\ life.grpc = "stopping"
    /\ life.streamOpen
    /\ life.waited = shutdownTimeout

\* The names of the snapshot's resources that come from service s.
Contribution(s) ==
    [clusters  |-> {Catalog[s].Name} \cap DOMAIN Pushed.clusters,
     endpoints |-> {Catalog[s].Name} \cap DOMAIN Pushed.endpoints,
     routes    |-> {r \in DOMAIN Pushed.routes :
                       Pushed.routes[r].Cluster = Catalog[s].Name}]

\* C29: a service of the list with no instance or with no route contributes
\* no cluster, no load assignment and no route, and every other service of
\* the same list has its cluster, its load assignment and its routes.
C29_EmptyServiceContributesNothing ==
    \A i \in DOMAIN snapshots[REF].services :
        LET s == snapshots[REF].services[i]
        IN  IF Catalog[s].Instances = <<>> \/ Catalog[s].Routes = <<>>
            THEN Contribution(s) = [clusters |-> {}, endpoints |-> {}, routes |-> {}]
            ELSE /\ Contribution(s).clusters # {}
                 /\ Contribution(s).endpoints # {}
                 /\ Cardinality(Contribution(s).routes) >= Len(Catalog[s].Routes)

\* A list with a service without instances, one without routes and one that
\* is built.
C29_EmptyAmongBuilt ==
    /\ \E i, j, k \in DOMAIN snapshots[REF].services :
          /\ snapshots[REF].services[i] = "web"
          /\ snapshots[REF].services[j] = "job"
          /\ snapshots[REF].services[k] = "shop"
    /\ DOMAIN Pushed.clusters = {"shop"}
    /\ Len(Pushed.routes) = 2

\* C30: in the batch watcher the counter is below the batch size at the top
\* of every loop iteration. A change of index adds one to it; when that makes
\* it reach the batch size the handler is called at once with the list just
\* read, the counter is reset and the timer stopped; otherwise the timer is
\* armed by the first change of a window only and runs on at a later one.
\* When the timer fires with a counter above 0 the handler is called with
\* the last list and the counter is reset; no other step changes the counter.
C30_BatchCounterDiscipline ==
    /\ []((strategy = "batch" /\ wpc # "stopped") =>
             (0 <= watcher.batchCount /\ watcher.batchCount < maxBatchSize))
    /\ [][(strategy = "batch" /\ whist'.changes = whist.changes + 1) =>
             IF watcher.batchCount + 1 >= maxBatchSize
             THEN /\ whist'.handler.calls = whist.handler.calls + 1
                  /\ whist'.handler.lastArg = ServicesAt(whist'.resp.index)
                  /\ watcher'.batchCount = 0
                  /\ watcher'.timer = -1
             ELSE /\ whist'.handler.calls = whist.handler.calls
                  /\ watcher'.batchCount = watcher.batchCount + 1
                  /\ IF watcher.batchCount = 0
                     THEN watcher'.timer = batchTimeout
                     ELSE /\ watcher'.timer <= watcher.timer
                          /\ watcher.timer >= 0 => watcher'.timer >= 0]_vars
    /\ [][(strategy = "batch" /\ whist'.changes = whist.changes) =>
             IF /\ wpc = "select" /\ wpc' = "select"
                /\ watcher.timer = 0 /\ watcher'.timer = -1
                /\ watcher.batchCount > 0
             THEN /\ whist'.handler.calls = whist.handler.calls + 1
                  /\ whist'.handler.lastArg = watcher.services
                  /\ watcher'.batchCount = 0
             ELSE /\ whist'.handler.calls = whist.handler.calls
                  /\ watcher'.batchCount = watcher.batchCount]_vars

\* The fifth change of a window has filled the batch: one handler call, the
\* counter back at 0 and the timer stopped.
C30_BatchFilled ==
    /\ strategy = "batch"
    /\ wpc = "select"
    /\ whist.changes = maxBatchSize
    /\ whist.handler.calls = 1
    /\ whist.handler.lastArg = watcher.services
    /\ watcher.batchCount = 0
    /\ watcher.timer = -1

\* The numbers N of 1..10 whose key route_<N>_path_prefix has a non-empty
\* value in the metadata.
RoutesWithPrefix(meta) ==
    {n \in 1..10 :
        /\ <<"route", ToString(n), "path", "prefix">> \in DOMAIN meta
        /\ meta[<<"route", ToString(n), "path", "prefix">>] # ""}

Leaders(entries) ==
    {e \in entries : \A f \in entries : f.ModifyIndex <= e.ModifyIndex}

\* The names of the services of a list of discovered services.
Names(list) == {list[j].Name : j \in DOMAIN list}

\* C32: for each service with healthy entries the entry of the largest
\* modify index is the leader: when it has no address, neither of the
\* service nor of the node, the service is not in the list passed to the
\* aggregator; else the service is in the list with the http2 flag and the
\* routes of the leader's metadata.
C32_LeaderWithoutAddressSkipped ==
    conv.fn = "handler" =>
        \A i \in DOMAIN conv.in.services :
            LET svc == conv.in.services[i]
                res == conv.in.health[svc]
            IN  (~res.err /\ res.entries # {}) =>
                   \E e \in Leaders(res.entries) :
                       IF EntryAddress(e) = ""
                       THEN svc \notin Names(conv.out)
                       ELSE \E j \in DOMAIN conv.out :
                              /\ conv.out[j].Name = svc
                              /\ conv.out[j].Routes = ParseServiceRoutes(svc, e.Meta)
                              /\ conv.out[j].EnableHTTP2 =
                                    (/\ <<"http2">> \in DOMAIN e.Meta
                                     /\ e.Meta[<<"http2">>] = "true")

\* The names of a list of discovered services, in its order.
NameSeq(list) == [j \in DOMAIN list |-> list[j].Name]

\* The service has a healthy entry and its health query did not fail.
Healthy(result) == ~result.err /\ result.entries # {}

\* C36: the list the consul handler passes to UpdateServices, and that the
\* slot "consul_loader" then holds, has exactly the services of the catalog
\* response whose health query succeeded with a healthy entry, in the order
\* of the response; the watcher has assigned lastIndex before the handler
\* runs, and a response with the index unchanged does not run the handler
\* nor change the slot.
C36_UnhealthyServiceLeftOut ==
    /\ [](conv.fn = "handler" =>
             /\ NameSeq(conv.out) =
                   SelectSeq(conv.in.services,
                             LAMBDA svc : Healthy(conv.in.health[svc]))
             /\ conv.slot = conv.out)
    /\ [][conv'.runs # conv.runs =>
             /\ conv'.lastIndex # conv.lastIndex
             /\ conv'.lastIndex = conv'.index]_vars
    /\ [][conv'.index = conv.lastIndex =>
             /\ conv'.runs = conv.runs
             /\ conv'.slot = conv.slot
             /\ conv'.lastIndex = conv.lastIndex]_vars

\* The health query of a failed and b was passed alone; the next response
\* had the same index and the handler did not run again.
C36_FailedQueryNotRetried ==
    /\ conv.fn = "handler"
    /\ conv.in.services = <<"a", "b">>
    /\ conv.in.health["a"].err
    /\ NameSeq(conv.slot) = <<"b">>
    /\ conv.runs = 1
    /\ conv.since = 1
    /\ conv.index = conv.lastIndex

\* The name the service of (id, portName) is to have: "mesos_", the id
\* without a leading "/" and with "/" and "-" replaced by "_", "_", and the
\* name of the port.
MesosName(id, portName) ==
    LET rest == IF id # <<>> /\ id[1] = "/" THEN Tail(id) ELSE id
    IN  <<"mesos", "_">>
        \o [i \in DOMAIN rest |-> IF rest[i] \in {"/", "-"} THEN "_" ELSE rest[i]]
        \o <<"_", portName>>

\* For every app and every port definition of it, in order: the name of the
\* service and the number of its instances, one for every healthy task.
RECURSIVE EmittedFor(_)
EmittedFor(apps) ==
    IF apps = <<>> THEN <<>>
    ELSE [p \in DOMAIN Head(apps).PortDefinitions |->
            [Name      |-> MesosName(Head(apps).ID, Head(apps).PortDefinitions[p].Name),
             Instances |-> Len(SelectSeq(Head(apps).Tasks, IsHealthy))]]
         \o EmittedFor(Tail(apps))

\* C33: the conversion emits exactly one service for every app and port
\* definition, named mesos_<sanitized-app-id>_<port-name>, with one instance
\* for every healthy task of the app.
C33_OneServicePerPortDefinition ==
    conv.fn = "convertToDiscoveredServices" =>
        [i \in DOMAIN conv.out |->
            [Name |-> conv.out[i].Name, Instances |-> Len(conv.out[i].Instances)]]
        = EmittedFor(conv.in)

\* C34: under every interleaving of OnStreamRequest with BuildAndPushSnapshot
\* the version stored under the node's key never decreases, and when neither
\* is running the node's key, once set, holds the version of the reference
\* key.
C34_NodeVersionNeverDecreases ==
    /\ [][snapshots'[TheNode].version >= snapshots[TheNode].version]_vars
    /\ []((/\ \A t \in Threads : th[t].pc = "idle"
           /\ stream.pc = "select"
           /\ snapshots[TheNode] # NoSnapshot)
             => snapshots[TheNode].version = snapshots[REF].version)

\* C35: a request handled by OnStreamRequest while no reference snapshot is
\* installed ends the stream with the error and leaves the cache as it was
\* (nothing under the node's key); a reference snapshot, once installed, is
\* never removed; and with one installed a request that is handled goes on
\* to install it for the node.
C35_NoReferenceRefusesThenNeverAgain ==
    /\ [][(/\ stream.pc = "select" /\ reqCh # <<>> /\ reqCh' = <<>>
           /\ snapshots[REF] = NoSnapshot)
            => /\ stream'.state = "closed"
               /\ snapshots' = snapshots
               /\ statusKeys' = statusKeys]_vars
    /\ [][snapshots[REF] # NoSnapshot => snapshots'[REF] # NoSnapshot]_vars
    /\ [][(/\ stream.pc = "select" /\ reqCh # <<>> /\ reqCh' = <<>>
           /\ snapshots[REF] # NoSnapshot
           /\ \A t \in Threads : th'[t].pc # "fatal")
            => /\ stream'.pc = "osrSet"
               /\ ~hist'.refused]_vars
    /\ [](hist.refused => stream.state = "closed" /\ snapshots[TheNode] = NoSnapshot)

\* The node's request was refused while a first build was under way: the
\* stream is closed and the cache still holds nothing.
C35_RefusedBeforeFirstBuild ==
    /\ hist.refused
    /\ snapshots[REF] = NoSnapshot
    /\ \E t \in Threads : th[t].pc = "merge"

\* The items of a flag value: what stands between two neighbouring cuts,
\* the cuts being the commas and the two ends.
Cuts(s) == {0, Len(s) + 1} \cup {i \in 1..Len(s) : s[i] = ","}

ItemFrom(s, a) ==
    LET b == CHOOSE c \in Cuts(s) : c > a /\ \A d \in Cuts(s) : d > a => c <= d
    IN SubSeq(s, a + 1, b - 1)

\* The places of the item that are not blank; the item is a port when it has
\* one and only digits stand from the first to the last of them.
Inked(item) == {i \in 1..Len(item) : item[i] # " "}

IsPort(item) ==
    /\ Inked(item) # {}
    /\ \A i \in 1..Len(item) :
         (\E a, b \in Inked(item) : a <= i /\ i <= b)
            => \E d \in 1..10 : DecimalDigits[d] = item[i]

\* p is the number the item writes in decimal.
RECURSIVE Pow10(_)
Pow10(n) == IF n = 0 THEN 1 ELSE 10 * Pow10(n - 1)

Writes(item, p) ==
    \E digits \in [Inked(item) -> 0..9] :
        /\ \A i \in Inked(item) : DecimalDigits[digits[i] + 1] = item[i]
        /\ \A k \in 0..Cardinality(Inked(item)) :
             LET last == CHOOSE m \in Inked(item) : \A n \in Inked(item) : n <= m
                 i == last - k
             IN i \in Inked(item) => (p \div Pow10(k)) % 10 = digits[i]
        /\ p < Pow10(Cardinality(Inked(item)))

\* The cuts that start an item which is not empty once trimmed, and among
\* them the first whose item is no port (past the end when all are ports).
Starts(s) == {a \in Cuts(s) \ {Len(s) + 1} : Inked(ItemFrom(s, a)) # {}}

FirstBad(s) ==
    IF \A a \in Starts(s) : IsPort(ItemFrom(s, a)) THEN Len(s) + 1
    ELSE CHOOSE a \in Starts(s) :
            /\ ~IsPort(ItemFrom(s, a))
            /\ \A b \in Starts(s) : b < a => IsPort(ItemFrom(s, b))

Pending ==
    \/ strategy = "debounce" /\ watcher.pendingUpdate /\ watcher.timer >= 0
    \/ strategy = "batch" /\ watcher.batchCount > 0

\* C38 as stated: once the context is cancelled with an update pending the
\* handler is not called any more, and it is never called after Watch has
\* returned.
C38_CancelledPendingNeverDelivered ==
    /\ [][(ctxDone /\ Pending) => whist'.handler = whist.handler]_vars
    /\ [][wpc = "stopped" => whist'.handler = whist.handler]_vars

\* C38 amended: with the context cancelled and an update pending, a step of
\* Watch whose timer has not expired returns without a call and stops the
\* timer; a call made after the cancellation is the timer case of a select
\* whose timer had already expired, and it delivers the pending list; after
\* Watch has returned nothing is called.
C38_CancelledPendingLostUnlessTimerFired ==
    /\ [][(ctxDone /\ Pending /\ watcher.timer # 0 /\ wpc' # wpc)
            => /\ wpc' = "stopped"
               /\ whist'.handler = whist.handler
               /\ watcher'.timer = -1]_vars
    /\ [][(ctxDone /\ whist'.handler # whist.handler)
            => /\ wpc = "select" /\ wpc' = "select"
               /\ watcher.timer = 0 /\ watcher'.timer = -1
               /\ Pending /\ ~Pending'
               /\ whist'.handler.calls = whist.handler.calls + 1
               /\ whist'.handler.lastArg =
                    (IF strategy = "debounce" THEN watcher.latestServices
                                              ELSE watcher.services)]_vars
    /\ [][wpc = "stopped" => wpc' = "stopped" /\ whist'.handler = whist.handler]_vars

\* The debounce watcher has returned on cancellation with its first change
\* still pending: the handler was never called.
C38_PendingChangeLost ==
    /\ strategy = "debounce"
    /\ ctxDone
    /\ wpc = "stopped"
    /\ watcher.pendingUpdate
    /\ whist.changes > 0
    /\ whist.handler.calls = 0

\* The handler holds the list of the last change the watcher has observed
\* and nothing is pending.
Delivered ==
    /\ ~Pending
    /\ whist.handler.calls > 0
    /\ whist.handler.lastArg = ServicesAt(watcher.lastIndex)

\* C37: in the debounce and the batch watcher every observed change is
\* eventually followed by a handler call with the list of that change or of
\* a later one, unless the context is cancelled; while a batch window is
\* open a further change never gives the window timer more time.
C37_PendingEventuallyDelivered ==
    /\ Pending ~> (Delivered \/ ctxDone)
    /\ [][(/\ strategy = "batch"
           /\ watcher.batchCount > 0
           /\ watcher'.batchCount > watcher.batchCount)
            => watcher'.timer <= watcher.timer]_vars

\* The debounce watcher has delivered the list of its third change after the
\* first two were overtaken while pending.
C37_LaterListDelivered ==
    /\ strategy = "debounce"
    /\ ~ctxDone
    /\ whist.changes = 3
    /\ whist.handler.calls = 1
    /\ Delivered

====
